---- MODULE Spec2Model ----
(***************************************************************************)
(* Model of the PRIMORDIA backend core: the seeded region simulator        *)
(* (backend/simulator/engine.py, headlines.py, config.py) and the          *)
(* divergence / alert engines (backend/models/signals.py,                  *)
(* backend/services/analysis.py, backend/main.py).                         *)
(*                                                                         *)
(* Number representation.  The simulator computes in binary floating       *)
(* point, and so does its model: a float of the program is a double of the *)
(* model, [neg, e, m], and +, -, *, / on doubles round to nearest, ties to *)
(* even, as IEEE-754 arithmetic does.  The state scalars, the regime       *)
(* intensities, the scores, the raw metadata and the sentiments of the     *)
(* headlines are doubles; int(), round(), the comparisons, the sort and    *)
(* the bisect of random.choices decide on them.  DivergenceAnalyzer and    *)
(* the rounding of GET /signals are modelled on doubles as well.           *)
(*                                                                         *)
(* Decimal literals and profile values are written in hundredths           *)
(* (Scale = 100 stands for 1.0; Centi(x) is the double of x / 100) and     *)
(* whole numbers as Whole(n).                                              *)
(*                                                                         *)
(* The divergence formulas of the fusion layer, where a claim compares     *)
(* their values for different inputs, are evaluated exactly: with scores   *)
(* and confidences in hundredths and the hype in whole points the value    *)
(* is a whole number of DivUnit-ths of a point (DivUnit = 8000000 stands   *)
(* for 1.0, so 100.0 is 800000000).  The distances main.py compares, to    *)
(* the market score, are the doubles of its subtractions.                  *)
(*                                                                         *)
(* The generator random.Random(seed) is a stream of draws: Raw(seed, pos)  *)
(* is the draw at position pos, a value of 0 .. RawMod - 1 standing for    *)
(* the double Raw / RawMod that random() returns.                          *)
(***************************************************************************)
EXTENDS Integers, Sequences, FiniteSets, TLC

None == "None"
\* an optional value: Nothing, or Some(x) whose value is x[1]
Nothing == << >>
Some(x) == << x >>
\* the absent regime (Optional[Regime] = None)
NoRegime == [type |-> None]

Scale == 100
DivUnit == 80000 * Scale

Abs(x) == IF x < 0 THEN -x ELSE x
Min(a, b) == IF a <= b THEN a ELSE b
Max(a, b) == IF a >= b THEN a ELSE b

(***************************************************************************)
(* Natural numbers of any size, as the 53-bit significands of doubles and  *)
(* their products need them: a sequence of limbs, least significant first, *)
(* without leading zero limbs (zero is the empty sequence).                *)
(***************************************************************************)

\* a limb holds LimbBits bits
LimbBits == 14

Base == 2^LimbBits

RECURSIVE BTrim(_)
BTrim(a) ==
    IF a = << >> \/ a[Len(a)] # 0 THEN a ELSE BTrim(SubSeq(a, 1, Len(a) - 1))

BLimb(a, i) == IF i >= 1 /\ i <= Len(a) THEN a[i] ELSE 0

\* the limbs of the number whose i-th column is c[i] (a column may exceed
\* the base or be negative; the number is not negative)
RECURSIVE BCarry(_, _, _)
BCarry(c, i, carry) ==
    IF i > Len(c)
    THEN IF carry = 0 THEN << >> ELSE << carry % Base >> \o BCarry(c, i, carry \div Base)
    ELSE << (c[i] + carry) % Base >> \o BCarry(c, i + 1, (c[i] + carry) \div Base)

BOfInt(n) == BCarry(<< n >>, 1, 0)

RECURSIVE BToInt(_)
BToInt(a) == IF a = << >> THEN 0 ELSE a[1] + Base * BToInt(SubSeq(a, 2, Len(a)))

RECURSIVE BColumn(_, _, _, _)
BColumn(a, b, k, i) ==
    IF i > Len(a) THEN 0
    ELSE a[i] * BLimb(b, k + 1 - i) + BColumn(a, b, k, i + 1)

BMul(a, b) ==
    BTrim(BCarry([k \in 1..(Len(a) + Len(b)) |-> BColumn(a, b, k, 1)], 1, 0))

\* a * 2^k
BShl(a, k) ==
    [i \in 1..(k \div LimbBits) |-> 0]
        \o BCarry([i \in 1..Len(a) |-> a[i] * 2^(k % LimbBits)], 1, 0)

\* a \div 2^k
BShr(a, k) ==
    LET q == k \div LimbBits
        s == k % LimbBits
    IN  BTrim([i \in 1..Max(0, Len(a) - q) |->
                  (a[i + q] \div 2^s) + (BLimb(a, i + q + 1) % 2^s) * 2^(LimbBits - s)])

\* bit k of a (bit 0 is the least significant)
BBit(a, k) == (BLimb(a, k \div LimbBits + 1) \div 2^(k % LimbBits)) % 2

\* a % 2^k = 0
BLowZero(a, k) ==
    /\ \A i \in 1..Min(Len(a), k \div LimbBits) : a[i] = 0
    /\ BLimb(a, k \div LimbBits + 1) % 2^(k % LimbBits) = 0

RECURSIVE IntBitLen(_)
IntBitLen(n) == IF n = 0 THEN 0 ELSE 1 + IntBitLen(n \div 2)

\* a < b
RECURSIVE BLessFrom(_, _, _)
BLessFrom(a, b, i) ==
    IF i = 0 THEN FALSE
    ELSE IF a[i] # b[i] THEN a[i] < b[i]
    ELSE BLessFrom(a, b, i - 1)

BLess(a, b) == Len(a) < Len(b) \/ (Len(a) = Len(b) /\ BLessFrom(a, b, Len(a)))

(***************************************************************************)
(* IEEE-754 doubles (Python float).  A double is [neg, e, m]: the value    *)
(* m * 2^e with the sign neg, m a 53-bit natural number (2^52 <= m < 2^53) *)
(* or zero.  The operations round to nearest, ties to even, as the         *)
(* hardware does.  The values of the program are far from the subnormal    *)
(* and the overflow range, which are not modelled.                         *)
(***************************************************************************)

FZero == [neg |-> FALSE, e |-> 0, m |-> << >>]

\* the records that are doubles
Doubles == [neg : BOOLEAN, e : Int, m : Seq(0..(Base - 1))]

\* float(n) of an integer of len bits, 0 < len <= 25: no rounding, the bits
\* of n are the leading bits of the mantissa
FOfBits(neg, n, len) ==
    [neg |-> neg, e |-> len - 53,
     m |-> IF len <= 11 THEN << 0, 0, 0, n * 2^(11 - len) >>
           ELSE << 0, 0, (n % 2^(len - 11)) * 2^(25 - len), n \div 2^(len - 11) >>]

\* float(n) of an integer below 2^25
FOfInt(n) == IF n = 0 THEN FZero ELSE FOfBits(n < 0, Abs(n), IntBitLen(Abs(n)))

FNeg[x \in Doubles] == IF x.m = << >> THEN x ELSE [x EXCEPT !.neg = ~x.neg]

FAbs[x \in Doubles] == [x EXCEPT !.neg = FALSE]

\* q + 1 of a 53-bit q of the limbs q1 .. q4: 2^53 is 2^52 with the
\* exponent one higher
FPackUp(neg, e, q1, q2, q3, q4) ==
    IF q1 + 1 < Base THEN [neg |-> neg, e |-> e, m |-> << q1 + 1, q2, q3, q4 >>]
    ELSE IF q2 + 1 < Base THEN [neg |-> neg, e |-> e, m |-> << 0, q2 + 1, q3, q4 >>]
    ELSE IF q3 + 1 < Base THEN [neg |-> neg, e |-> e, m |-> << 0, 0, q3 + 1, q4 >>]
    ELSE IF q4 + 1 < 2048 THEN [neg |-> neg, e |-> e, m |-> << 0, 0, 0, q4 + 1 >>]
    ELSE [neg |-> neg, e |-> e + 1, m |-> << 0, 0, 0, 1024 >>]

\* the double nearest to q * 2^e plus a fraction of the last bit of q, q a
\* 53-bit number of the limbs q1 .. q4: half is the first bit of the
\* fraction and rest tells whether a later one is set
FPackRound(neg, e, q1, q2, q3, q4, half, rest) ==
    IF half = 1 /\ (rest \/ q1 % 2 = 1) THEN FPackUp(neg, e, q1, q2, q3, q4)
    ELSE [neg |-> neg, e |-> e, m |-> << q1, q2, q3, q4 >>]

\* the same for a q of 53 or 54 bits: the last of 54 bits joins the fraction
FPack(neg, e, q1, q2, q3, q4, half, rest) ==
    IF q4 >= 2048
    THEN FPackRound(neg, e + 1, q1 \div 2 + (q2 % 2) * 8192, q2 \div 2 + (q3 % 2) * 8192,
                    q3 \div 2 + (q4 % 2) * 8192, q4 \div 2, q1 % 2, half = 1 \/ rest)
    ELSE FPackRound(neg, e, q1, q2, q3, q4, half, rest)

\* a column plus the carry of the column k below it
Carried(c, k) == c + k \div Base

\* the product of the limbs p1 .. p8 (p1 .. p3 zero unless low) has 105 or
\* 106 bits: the 53 or 54 bits from bit 52 on are kept
FMulShift(neg, e, p4, p5, p6, p7, p8, low) ==
    FPack(neg, e + 52, p4 \div 1024 + (p5 % 1024) * 16, p5 \div 1024 + (p6 % 1024) * 16,
          p6 \div 1024 + (p7 % 1024) * 16, p7 \div 1024 + p8 * 16,
          (p4 \div 512) % 2, low \/ p4 % 512 # 0)

FMulCarried(neg, e, k4, c5, c6, c7, low) ==
    FMulShift(neg, e, k4 % Base, Carried(c5, k4) % Base,
              Carried(c6, Carried(c5, k4)) % Base,
              Carried(c7, Carried(c6, Carried(c5, k4))) % Base,
              Carried(c7, Carried(c6, Carried(c5, k4))) \div Base, low)

\* the product whose columns are c1 .. c7
FMulColumns(neg, e, c1, c2, c3, c4, c5, c6, c7) ==
    FMulCarried(neg, e, Carried(c4, Carried(c3, Carried(c2, c1))), c5, c6, c7,
                \/ c1 % Base # 0
                \/ Carried(c2, c1) % Base # 0
                \/ Carried(c3, Carried(c2, c1)) % Base # 0)

\* the product of the mantissas of the limbs a1 .. a4 and b1 .. b4
FMulLimbs(neg, e, a1, a2, a3, a4, b1, b2, b3, b4) ==
    FMulColumns(neg, e, a1 * b1, a1 * b2 + a2 * b1, a1 * b3 + a2 * b2 + a3 * b1,
                a1 * b4 + a2 * b3 + a3 * b2 + a4 * b1, a2 * b4 + a3 * b3 + a4 * b2,
                a3 * b4 + a4 * b3, a4 * b4)

\* x * y
FMul[x \in Doubles, y \in Doubles] ==
    IF x.m = << >> \/ y.m = << >> THEN FZero
    ELSE FMulLimbs(x.neg # y.neg, x.e + y.e, x.m[1], x.m[2], x.m[3], x.m[4],
                   y.m[1], y.m[2], y.m[3], y.m[4])

\* Sums are taken on the mantissa with three more bits below it, 56 bits
\* held as two halves of 28 bits; the last of the three bits is set when
\* anything below it was lost.
HalfBase == 2^28

GuardedHi(m) == (m[3] + m[4] * Base) * 8 + m[2] \div 2048

GuardedLo(m) == m[1] * 8 + (m[2] % 2048) * 131072

\* lo with its last bit set when lost
Jam(lo, lost) == IF lost /\ lo % 2 = 0 THEN lo + 1 ELSE lo

\* (hi, lo) \div 2^d
ShrHi(hi, d) == IF d < 28 THEN hi \div 2^d ELSE 0

ShrLo(hi, lo, d) ==
    IF d < 28 THEN Jam(lo \div 2^d + (hi % 2^d) * 2^(28 - d), lo % 2^d # 0)
    ELSE IF d < 56 THEN Jam(hi \div 2^(d - 28), lo # 0 \/ hi % 2^(d - 28) # 0)
    ELSE 1

\* the double nearest to the 56-bit number (hi, lo) times 2^e
FOfGuarded(neg, e, hi, lo) ==
    FPackRound(neg, e + 3, (lo \div 8) % Base, (lo \div 131072) + (hi % 8) * 2048,
               (hi \div 8) % Base, hi \div 131072, (lo \div 4) % 2, lo % 4 # 0)

\* a sum of 56 or 57 bits
FOfSum(neg, e, hi, lo) ==
    IF hi >= HalfBase
    THEN FOfGuarded(neg, e + 1, hi \div 2, Jam(lo \div 2 + (hi % 2) * 134217728, lo % 2 = 1))
    ELSE FOfGuarded(neg, e, hi, lo)

\* the number of bits of n, 0 < n < 2^28
BitLen14(n) == Cardinality({k \in 0..13 : n >= 2^k})

BitLen28(n) == IF n >= Base THEN 14 + BitLen14(n \div Base) ELSE BitLen14(n)

\* (hi, lo) * 2^s for an hi below 2^(28 - s)
FOfShifted(neg, e, hi, lo, s) ==
    FOfGuarded(neg, e - s, hi * 2^s + lo \div 2^(28 - s), (lo % 2^(28 - s)) * 2^s)

\* a difference of at most 56 bits, not zero: its leading bit is brought to
\* the top of hi
FOfDifference(neg, e, hi, lo) ==
    IF hi = 0 THEN FOfShifted(neg, e - 28, lo, 0, 28 - BitLen28(lo))
    ELSE FOfShifted(neg, e, hi, lo, 28 - BitLen28(hi))

FAddHalves(xneg, yneg, e, xhi, xlo, yhi, ylo) ==
    IF xneg = yneg
    THEN FOfSum(xneg, e, xhi + yhi + (xlo + ylo) \div HalfBase, (xlo + ylo) % HalfBase)
    ELSE IF xhi = yhi /\ xlo = ylo THEN FZero
    ELSE IF xlo < ylo THEN FOfDifference(xneg, e, xhi - yhi - 1, xlo - ylo + HalfBase)
    ELSE FOfDifference(xneg, e, xhi - yhi, xlo - ylo)

\* x + y for abs(x) >= abs(y), neither zero: a y below an eighth of the
\* last bit of x changes nothing
FAddOrdered(x, y) ==
    IF x.e - y.e > 55 THEN x
    ELSE FAddHalves(x.neg, y.neg, x.e - 3, GuardedHi(x.m), GuardedLo(x.m),
                    ShrHi(GuardedHi(y.m), x.e - y.e),
                    ShrLo(GuardedHi(y.m), GuardedLo(y.m), x.e - y.e))

\* x + y
FAdd[x \in Doubles, y \in Doubles] ==
    IF x.m = << >> THEN y
    ELSE IF y.m = << >> THEN x
    ELSE IF x.e < y.e \/ (x.e = y.e /\ BLess(x.m, y.m)) THEN FAddOrdered(y, x)
    ELSE FAddOrdered(x, y)

\* x - y
FSub[x \in Doubles, y \in Doubles] == FAdd[x, FNeg[y]]

\* the division by a divisor of one limb k (2^10 <= k < 2^11) goes limb by
\* limb: t is the remainder so far with the next limb of the dividend
FDivShortEnd(neg, e, k, q1, q2, q3, q4, r) ==
    FPack(neg, e, q1, q2, q3, q4, IF 2 * r >= k THEN 1 ELSE 0, (2 * r) % k # 0)

FDivShort1(neg, e, k, q2, q3, q4, t1) ==
    FDivShortEnd(neg, e, k, t1 \div k, q2, q3, q4, t1 % k)

FDivShort2(neg, e, k, q3, q4, t2, n1) ==
    FDivShort1(neg, e, k, t2 \div k, q3, q4, (t2 % k) * Base + n1)

FDivShort3(neg, e, k, q4, t3, n2, n1) ==
    FDivShort2(neg, e, k, t3 \div k, q4, (t3 % k) * Base + n2, n1)

\* x.m * 2^11 \div k, the limbs of x.m being x1 .. x4
FDivShort(neg, e, k, x1, x2, x3, x4) ==
    FDivShort3(neg, e, k, ((x4 \div 8) * Base + (x4 % 8) * 2048 + x3 \div 8) \div k,
               (((x4 \div 8) * Base + (x4 % 8) * 2048 + x3 \div 8) % k) * Base
                   + (x3 % 8) * 2048 + x2 \div 8,
               (x2 % 8) * 2048 + x1 \div 8, (x1 % 8) * 2048)

\* x / y for a y whose mantissa is one limb (a power of two, a whole number
\* below 2048)
FDivByLimb(x, y) ==
    IF x.m = << >> THEN FZero
    ELSE FDivShort(x.neg # y.neg, x.e - y.e - 53, y.m[4], x.m[1], x.m[2], x.m[3], x.m[4])

\* The long division by a divisor of four limbs w1 .. w4 whose top limb has
\* its top bit set.  One step takes the remainder r so far, shifted up by a
\* limb, to the next digit q of the quotient and the next remainder, both
\* r and the result being below the divisor.  c1 .. c5 are the columns of
\* r * Base - q * w not yet carried; a q that is too much leaves them
\* negative and is lowered.
RECURSIVE FDivDigit(_, _, _, _, _, _, _, _, _, _)
FDivDigit(q, c1, c2, c3, c4, c5, w1, w2, w3, w4) ==
    IF Carried(c5, Carried(c4, Carried(c3, Carried(c2, c1)))) < 0
    THEN FDivDigit(q - 1, c1 + w1, c2 + w2, c3 + w3, c4 + w4, c5, w1, w2, w3, w4)
    ELSE [q |-> q,
          r |-> << c1 % Base, Carried(c2, c1) % Base, Carried(c3, Carried(c2, c1)) % Base,
                   Carried(c4, Carried(c3, Carried(c2, c1))) % Base >>]

\* the digit guessed from the two top limbs of r and the top limb of w is
\* at most two too much
FDivGuess(q, r, w) ==
    FDivDigit(q, -(q * w[1]), r[1] - q * w[2], r[2] - q * w[3], r[3] - q * w[4], r[4],
              w[1], w[2], w[3], w[4])

FDivJoin(digits, d) == [q |-> Append(digits, d.q), r |-> d.r]

\* one step, as a function of the digits and the remainder so far
FDivStepOf[s \in [q : Seq(Int), r : Seq(Int)], w \in Seq(Int)] ==
    FDivJoin(s.q, FDivGuess(Min(Base - 1, (s.r[4] * Base + s.r[3]) \div w[4]), s.r, w))

\* m * 2^k of a mantissa, k at most 3, as four limbs
FTimes(m, k) ==
    << (m[1] * 2^k) % Base, ((m[2] * 2^k) % Base) + (m[1] \div 2^(LimbBits - k)),
       ((m[3] * 2^k) % Base) + (m[2] \div 2^(LimbBits - k)),
       (m[4] * 2^k) + (m[3] \div 2^(LimbBits - k)) >>

\* the quotient of four digits, most significant first, is a number of 56
\* bits: the mantissa and three more bits, the last of them set when the
\* division left a remainder
FDivQuotient(neg, e, s) ==
    FOfGuarded(neg, e, s.q[1] * Base + s.q[2],
               Jam(s.q[3] * Base + s.q[4], s.r # << 0, 0, 0, 0 >>))

\* the first 56 bits of x.m / y.m: the dividend x.m * 2^shift (shift is 2
\* when x.m >= y.m, else 3) is below the divisor y.m * 2^3, and four
\* digits follow it
FDivLong(neg, e, x, w, shift) ==
    FDivQuotient(neg, e - shift,
                 FDivStepOf[FDivStepOf[FDivStepOf[FDivStepOf[
                     [q |-> << >>, r |-> FTimes(x.m, shift)], w], w], w], w])

\* x / y, y not zero.  A y whose mantissa is one limb is divided by limb by
\* limb, any other by the long division.
FDiv[x \in Doubles, y \in Doubles] ==
    IF x.m = << >> THEN FZero
    ELSE IF y.m[1] = 0 /\ y.m[2] = 0 /\ y.m[3] = 0 THEN FDivByLimb(x, y)
    ELSE FDivLong(x.neg # y.neg, x.e - y.e - 53, x, FTimes(y.m, 3),
                  IF BLess(x.m, y.m) THEN 3 ELSE 2)

\* n / d of two integers, 0 < d < 2048: the double of a decimal literal
FOfRatio(n, d) == FDivByLimb(FOfInt(n), FOfInt(d))

\* x < y
FLess[x \in Doubles, y \in Doubles] ==
    IF x.m = << >> THEN y.m # << >> /\ ~y.neg
    ELSE IF y.m = << >> THEN x.neg
    ELSE IF x.neg # y.neg THEN x.neg
    ELSE IF x.neg THEN (y.e < x.e \/ (y.e = x.e /\ BLess(y.m, x.m)))
    ELSE (x.e < y.e \/ (x.e = y.e /\ BLess(x.m, y.m)))

\* min(x, y) and max(x, y) of Python: the first argument unless the second
\* is smaller (larger)
FMin[x \in Doubles, y \in Doubles] == IF FLess[y, x] THEN y ELSE x

FMax[x \in Doubles, y \in Doubles] == IF FLess[x, y] THEN y ELSE x

\* int(x): the integer part
FInt(x) ==
    IF x.m = << >> THEN 0
    ELSE (IF x.neg THEN -1 ELSE 1)
         * BToInt(IF x.e >= 0 THEN BShl(x.m, x.e) ELSE BShr(x.m, -x.e))

\* x <= y
FLeq[x \in Doubles, y \in Doubles] == ~FLess[y, x]

\* the double of the decimal literal x / 100, tabulated for the literals and
\* the profile values of the program
Centis == [x \in -1000..1000 |-> FOfRatio(x, Scale)]

Centi(x) == Centis[x]

\* float(n) of a whole number, tabulated likewise
Wholes == [n \in -100..1000 |-> FOfInt(n)]

Whole(n) == Wholes[n]

\* max(lo, min(hi, x)) of three doubles
FClamp[lo \in Doubles, hi \in Doubles, x \in Doubles] == FMax[lo, FMin[hi, x]]

\* abs(a - b) of two scores given in hundredths, as the double main.py
\* computes from the doubles of the scores
FloatGap(a, b) == FAbs[FSub[Centi(a), Centi(b)]]

\* abs(a - m) < abs(b - m) on the doubles of the two subtractions
gap_less(a, b, m) == FLess[FloatGap(a, m), FloatGap(b, m)]

\* abs(a - m) < 0.3 on the double of the subtraction
market_aligned(a, m) == FLess[FloatGap(a, m), Centi(30)]

(***************************************************************************)
(* Divergence formulas                                                     *)
(***************************************************************************)

\* _compute_divergence with the abs() of raw_gap omitted
RegionSimulator_compute_divergence_signed(sat_score, news_score, sat_confidence, news_confidence, hype_intensity) ==
    Min(100 * DivUnit,
        100 * (sat_score - news_score) * (sat_confidence + news_confidence) * (200 + hype_intensity))

\* _compute_divergence with the hype amplifier 1 + hype/100 (up to 2)
RegionSimulator_compute_divergence_hype_doubling(sat_score, news_score, sat_confidence, news_confidence, hype_intensity) ==
    Min(100 * DivUnit,
        100 * Abs(sat_score - news_score) * (sat_confidence + news_confidence)
            * (200 + 2 * hype_intensity))

\* engine.py RegionSimulator._compute_divergence
\*   raw_gap = |sat - news| / 2 ; avg_conf = (sc + nc) / 2
\*   hype_amp = 1 + hype/100 * 0.5 ; min(100, raw_gap*avg_conf*hype_amp*100)
\* in DivUnit-ths: (g/200) * (c/200) * ((200+h)/200) * 100 * 8000000
\*               = 100 * g * c * (200 + h)
RegionSimulator_compute_divergence(sat_score, news_score, sat_confidence, news_confidence, hype_intensity) ==
    LET raw_gap2 == Abs(sat_score - news_score)
        avg_confidence2 == sat_confidence + news_confidence
        hype_amplifier200 == 200 + hype_intensity
        divergence == 100 * raw_gap2 * avg_confidence2 * hype_amplifier200
    IN  Min(100 * DivUnit, divergence)

\* analysis.py SignalAnalyzer._compute_divergence (same formula)
SignalAnalyzer_compute_divergence(sat_score, news_score, sat_confidence, news_confidence, hype_intensity) ==
    LET raw_gap2 == Abs(sat_score - news_score)
        avg_confidence2 == sat_confidence + news_confidence
        hype_amp200 == 200 + hype_intensity
        divergence == 100 * raw_gap2 * avg_confidence2 * hype_amp200
    IN  Min(100 * DivUnit, divergence)

\* signals.py DivergenceAnalyzer.HYPE_AMPLIFICATION = 0.5
HYPE_AMPLIFICATION == Centi(50)

\* DivergenceAnalyzer._compute_divergence with the hype amplifier left at 1.0
DivergenceAnalyzer_compute_divergence_float_no_hype(sat_score, news_score, sat_confidence, hype_intensity) ==
    FMin[Whole(100),
         FMul[FMul[FMul[FDiv[FAbs[FSub[sat_score, news_score]], Whole(2)], sat_confidence],
                   Whole(1)], Whole(100)]]

\* signals.py DivergenceAnalyzer._compute_divergence on the doubles of the
\* two signals, operation by operation:
\*   raw_gap = abs(sat.score - news.score) / 2.0
\*   confidence_weight = sat.confidence
\*   hype_amplifier = 1.0 + (news.hype_intensity / 100.0) * HYPE_AMPLIFICATION
\*   divergence = raw_gap * confidence_weight * hype_amplifier * 100.0
\*   return min(100.0, divergence)
DivergenceAnalyzer_compute_divergence_float(sat_score, news_score, sat_confidence, hype_intensity) ==
    LET raw_gap == FDiv[FAbs[FSub[sat_score, news_score]], Whole(2)]
        confidence_weight == sat_confidence
        hype_amplifier == FAdd[Whole(1), FMul[FDiv[hype_intensity, Whole(100)],
                                              HYPE_AMPLIFICATION]]
        divergence == FMul[FMul[FMul[raw_gap, confidence_weight], hype_amplifier], Whole(100)]
    IN  FMin[Whole(100), divergence]

\* The exact value of that formula for inputs in hundredths (hype in whole
\* points): weight is the satellite confidence alone.
\* in DivUnit-ths: (g/200) * (c/100) * ((200+h)/200) * 100 * 8000000
\*               = 200 * g * c * (200 + h)
DivergenceAnalyzer_compute_divergence(sat_score, news_score, sat_confidence, hype_intensity) ==
    LET raw_gap2 == Abs(sat_score - news_score)
        confidence_weight == sat_confidence
        hype_amplifier200 == 200 + hype_intensity
        divergence == 200 * raw_gap2 * confidence_weight * hype_amplifier200
    IN  Min(100 * DivUnit, divergence)

\* compute_divergence with the two gains exchanged
market_factor10_exchanged(sat_score, news_score, market_score) ==
    IF market_score = Nothing THEN 10
    ELSE IF gap_less(sat_score, news_score, market_score[1]) THEN 11
    ELSE IF gap_less(news_score, sat_score, market_score[1]) THEN 12
    ELSE 10

\* main.py compute_divergence: market factor in tenths (10, 11, 12);
\* market_score is Nothing (None) or Some(score).  The two gaps are the
\* doubles of the subtractions, which also decide between scores that are
\* equally far from the market score as decimals.
market_factor10(sat_score, news_score, market_score) ==
    IF market_score = Nothing THEN 10
    ELSE IF gap_less(sat_score, news_score, market_score[1]) THEN 12
    ELSE IF gap_less(news_score, sat_score, market_score[1]) THEN 11
    ELSE 10

\* compute_divergence with the confidence floor misplaced:
\* 0.3 + 0.7 * combined_conf * gap instead of gap * (0.3 + 0.7 * combined_conf)
compute_divergence_floor_added(sat_score, news_score, market_score, sat_conf, news_conf, hype) ==
    Max(0, Min(100 * DivUnit,
               (600 * Scale + 7 * (sat_conf + news_conf) * Abs(sat_score - news_score))
               * (200 + hype) * market_factor10(sat_score, news_score, market_score)))

\* compute_divergence with the abs() of sat_news_gap omitted
compute_divergence_signed(sat_score, news_score, market_score, sat_conf, news_conf, hype) ==
    Max(0, Min(100 * DivUnit,
               (sat_score - news_score) * (600 + 7 * (sat_conf + news_conf))
               * (200 + hype) * market_factor10(sat_score, news_score, market_score)))

\* main.py compute_divergence
\*   gap * (0.3 + 0.7*(sc+nc)/2) * (1 + hype/100*0.5) * market_factor * 50
\* in DivUnit-ths: (g/100) * ((600+7c)/2000) * ((200+h)/200) * (mf/10) * 50 * 8000000
\*               = g * (600 + 7c) * (200 + h) * mf
compute_divergence(sat_score, news_score, market_score, sat_conf, news_conf, hype) ==
    LET sat_news_gap == Abs(sat_score - news_score)
        conf_weight2000 == 600 + 7 * (sat_conf + news_conf)
        hype_amp200 == 200 + hype
        divergence == sat_news_gap * conf_weight2000 * hype_amp200
                        * market_factor10(sat_score, news_score, market_score)
    IN  Max(0, Min(100 * DivUnit, divergence))

(***************************************************************************)
(* Alert generators.  An alert is modelled by its level and its title (or, *)
(* in main.py, its category and the leading words of its message).         *)
(***************************************************************************)

\* signals.py DivergenceAnalyzer thresholds
THRESHOLD_LOW == 30
THRESHOLD_MEDIUM == 55
THRESHOLD_HIGH == 75

\* signals.py DivergenceAnalyzer._generate_alerts; the four readings are
\* doubles and are compared as doubles
DivergenceAnalyzer_generate_alerts(sat_score, news_score, div, hype) ==
    LET sat_bullish == FLess[Centi(10), sat_score]
        sat_bearish == FLess[sat_score, Centi(-10)]
        news_bullish == FLess[Centi(10), news_score]
        news_bearish == FLess[news_score, Centi(-10)]
        first ==
            IF FLeq[Whole(THRESHOLD_HIGH), div] THEN
                IF news_bullish /\ sat_bearish
                THEN [level |-> "critical", title |-> "Hype Divergence Detected"]
                ELSE IF news_bearish /\ sat_bullish
                THEN [level |-> "critical", title |-> "Panic Divergence Detected"]
                ELSE [level |-> "warning", title |-> "Extreme Magnitude Mismatch"]
            ELSE IF FLeq[Whole(THRESHOLD_MEDIUM), div]
            THEN [level |-> "warning", title |-> "Elevated Divergence"]
            ELSE IF FLeq[Whole(THRESHOLD_LOW), div]
            THEN [level |-> "info", title |-> "Minor Divergence"]
            ELSE [level |-> "info", title |-> "Signals Aligned"]
        second ==
            IF FLeq[Whole(70), hype] /\ FLeq[Whole(THRESHOLD_LOW), div]
            THEN << [level |-> "warning", title |-> "High Hype Intensity"] >>
            ELSE << >>
    IN  << first >> \o second

\* signals.py DivergenceAnalyzer.__init__: the divergence is computed from the
\* two signals (sat.score, sat.confidence, news.score, news.hype_intensity
\* are doubles) and the alerts from that double
DivergenceAnalyzer_init(sat, news) ==
    [ _divergence |-> DivergenceAnalyzer_compute_divergence_float(
                          sat.score, news.score, sat.confidence, news.hype_intensity),
      _alerts |-> DivergenceAnalyzer_generate_alerts(
                      sat.score, news.score,
                      DivergenceAnalyzer_compute_divergence_float(
                          sat.score, news.score, sat.confidence, news.hype_intensity),
                      news.hype_intensity) ]

\* analysis.py SignalAnalyzer thresholds
THRESHOLD_ELEVATED == 35
THRESHOLD_CRITICAL == 60

\* analysis.py SignalAnalyzer._generate_alerts
SignalAnalyzer_generate_alerts(sat_score, news_score, divergence, hype, sat_source) ==
    LET quality ==
            IF sat_source = "UNAVAILABLE"
            THEN << [level |-> "warning", title |-> "Satellite Data Unavailable"] >>
            ELSE << >>
        div ==
            IF divergence >= THRESHOLD_CRITICAL * DivUnit THEN
                IF news_score > 15 /\ sat_score < -15
                THEN [level |-> "critical", title |-> "Hype Divergence"]
                ELSE IF news_score < -15 /\ sat_score > 15
                THEN [level |-> "critical", title |-> "Panic Divergence"]
                ELSE [level |-> "critical", title |-> "High Divergence"]
            ELSE IF divergence >= THRESHOLD_ELEVATED * DivUnit
            THEN [level |-> "warning", title |-> "Elevated Divergence"]
            ELSE [level |-> "info", title |-> "Signals Aligned"]
        hypeAlert ==
            IF hype >= 60
            THEN << [level |-> "warning", title |-> "High Hype Detected"] >>
            ELSE << >>
    IN  quality \o << div >> \o hypeAlert

\* main.py generate_alerts up to the fallback (lines 276-331); news_raw
\* carries headline_volume and hype_intensity, sat_raw is not read by the
\* code.
collected_alerts(sat_score, news_score, market_score, divergence, sat_raw, news_raw) ==
    LET data ==
            IF news_raw.headline_volume < 5
            THEN << [level |-> "info", category |-> "data", title |-> "Limited news coverage"] >>
            ELSE << >>
        div ==
            IF divergence > 75 * DivUnit THEN
                IF news_score > 20 /\ sat_score < -10
                THEN << [level |-> "critical", category |-> "divergence", title |-> "HYPE DIVERGENCE"] >>
                ELSE IF news_score < -20 /\ sat_score > 10
                THEN << [level |-> "critical", category |-> "divergence", title |-> "PANIC DIVERGENCE"] >>
                ELSE << [level |-> "warning", category |-> "divergence", title |-> "Significant signal divergence"] >>
            ELSE IF divergence > 50 * DivUnit
            THEN << [level |-> "warning", category |-> "divergence", title |-> "Moderate divergence"] >>
            ELSE << >>
        hypeAlert ==
            IF news_raw.hype_intensity > 70
            THEN << [level |-> "warning", category |-> "hype", title |-> "High narrative hype"] >>
            ELSE << >>
        market ==
            IF market_score # Nothing
            THEN LET sat_market_aligned == market_aligned(sat_score, market_score[1])
                     news_market_aligned == market_aligned(news_score, market_score[1])
                 IN  IF sat_market_aligned /\ ~news_market_aligned /\ news_raw.hype_intensity > 50
                     THEN << [level |-> "warning", category |-> "market", title |-> "Market aligns with physical reality"] >>
                     ELSE << >>
            ELSE << >>
    IN  data \o div \o hypeAlert \o market

\* generate_alerts with the final "if not alerts" fallback omitted
generate_alerts_no_fallback(sat_score, news_score, market_score, divergence, sat_raw, news_raw) ==
    collected_alerts(sat_score, news_score, market_score, divergence, sat_raw, news_raw)

\* generate_alerts with the status alert appended unconditionally
generate_alerts_always_ok(sat_score, news_score, market_score, divergence, sat_raw, news_raw) ==
    collected_alerts(sat_score, news_score, market_score, divergence, sat_raw, news_raw)
        \o << [level |-> "ok", category |-> "status", title |-> "Signals aligned - monitoring active"] >>

\* main.py generate_alerts
generate_alerts(sat_score, news_score, market_score, divergence, sat_raw, news_raw) ==
    IF collected_alerts(sat_score, news_score, market_score, divergence, sat_raw, news_raw) = << >>
    THEN << [level |-> "ok", category |-> "status", title |-> "Signals aligned - monitoring active"] >>
    ELSE collected_alerts(sat_score, news_score, market_score, divergence, sat_raw, news_raw)

(***************************************************************************)
(* Region profiles (config.py).  Fractions are in hundredths.              *)
(***************************************************************************)

RegimeTypes == << "HYPE_PUMP", "SUPPLY_SHOCK", "PANIC_SELL", "REAL_GROWTH", "MEAN_REVERSION" >>

\* config.py REGION_CONFIGS.  regime_weights follows the key order of the
\* dictionaries, which is the order of RegimeTypes.
REGION_CONFIGS ==
    [ shanghai |->
        [ name |-> "Shanghai, China", proxy_type |-> "ports",
          sat_baseline |-> 10, sat_volatility |-> 8, sat_weekend_effect |-> 70,
          sat_trend_persistence |-> 60, news_volume_baseline |-> 120,
          news_sentiment_bias |-> 5, news_hype_tendency |-> 70,
          news_diversity_baseline |-> 40,
          regime_weights |-> << 35, 20, 15, 20, 10 >> ],
      shenzhen |->
        [ name |-> "Shenzhen, China", proxy_type |-> "manufacturing",
          sat_baseline |-> 15, sat_volatility |-> 10, sat_weekend_effect |-> 60,
          sat_trend_persistence |-> 70, news_volume_baseline |-> 90,
          news_sentiment_bias |-> -5, news_hype_tendency |-> 50,
          news_diversity_baseline |-> 45,
          regime_weights |-> << 20, 25, 25, 20, 10 >> ],
      suez |->
        [ name |-> "Suez Canal Zone", proxy_type |-> "ports",
          sat_baseline |-> -10, sat_volatility |-> 15, sat_weekend_effect |-> 90,
          sat_trend_persistence |-> 80, news_volume_baseline |-> 150,
          news_sentiment_bias |-> -15, news_hype_tendency |-> 60,
          news_diversity_baseline |-> 70,
          regime_weights |-> << 5, 45, 25, 10, 15 >> ],
      la_port |->
        [ name |-> "Port of Los Angeles", proxy_type |-> "ports",
          sat_baseline |-> 5, sat_volatility |-> 6, sat_weekend_effect |-> 75,
          sat_trend_persistence |-> 50, news_volume_baseline |-> 80,
          news_sentiment_bias |-> 10, news_hype_tendency |-> 30,
          news_diversity_baseline |-> 80,
          regime_weights |-> << 15, 20, 15, 35, 15 >> ],
      rotterdam |->
        [ name |-> "Rotterdam, Netherlands", proxy_type |-> "oil_storage",
          sat_baseline |-> 0, sat_volatility |-> 7, sat_weekend_effect |-> 80,
          sat_trend_persistence |-> 55, news_volume_baseline |-> 70,
          news_sentiment_bias |-> 8, news_hype_tendency |-> 25,
          news_diversity_baseline |-> 85,
          regime_weights |-> << 20, 15, 10, 40, 15 >> ] ]

\* config.py get_config: fallback to shanghai if not found
get_config(region_id) ==
    IF region_id \in DOMAIN REGION_CONFIGS
    THEN REGION_CONFIGS[region_id]
    ELSE REGION_CONFIGS["shanghai"]

\* RegionConfig objects that are not in config.py: profiles a caller builds
\* with the dataclass and registers under an id of its own
\* (REGION_CONFIGS[region_id] = RegionConfig(...)) before constructing a
\* simulator.  "stress" has extreme volatility, bias, baseline and weekend
\* multiplier; "flat" and "mute" are shanghai with a zero volatility and
\* with a zero volume baseline.
CallerProfiles ==
    [ stress |->
        [ name |-> "Stress profile", proxy_type |-> "ports",
          sat_baseline |-> -100, sat_volatility |-> 500, sat_weekend_effect |-> 300,
          sat_trend_persistence |-> 95, news_volume_baseline |-> 400,
          news_sentiment_bias |-> 200, news_hype_tendency |-> 100,
          news_diversity_baseline |-> 0,
          regime_weights |-> << 50, 10, 20, 10, 10 >> ],
      \* shanghai with sat_volatility = 0
      flat |->
        [ name |-> "Flat profile", proxy_type |-> "ports",
          sat_baseline |-> 10, sat_volatility |-> 0, sat_weekend_effect |-> 70,
          sat_trend_persistence |-> 60, news_volume_baseline |-> 120,
          news_sentiment_bias |-> 5, news_hype_tendency |-> 70,
          news_diversity_baseline |-> 40,
          regime_weights |-> << 35, 20, 15, 20, 10 >> ],
      \* shanghai with news_volume_baseline = 0
      mute |->
        [ name |-> "Mute profile", proxy_type |-> "ports",
          sat_baseline |-> 10, sat_volatility |-> 8, sat_weekend_effect |-> 70,
          sat_trend_persistence |-> 60, news_volume_baseline |-> 0,
          news_sentiment_bias |-> 5, news_hype_tendency |-> 70,
          news_diversity_baseline |-> 40,
          regime_weights |-> << 35, 20, 15, 20, 10 >> ] ]

(***************************************************************************)
(* random.Random.  The generator is a deterministic function of its seed;  *)
(* the model keeps that and nothing of the Mersenne Twister: the stream of *)
(* a seed is Raw(seed, 0), Raw(seed, 1), ... with values in 0..RawMod-1,   *)
(* a generator is [seed, pos, gauss_next], and every method consumes       *)
(* stream elements from pos.  gauss draws a pair of normals from two       *)
(* stream elements on every other call and keeps the second in gauss_next, *)
(* as random.gauss does.                                                   *)
(***************************************************************************)

RawMod == 1000

Raw(seed, pos) ==
    ( ((seed % 97) + 1) * ((pos % 89) + 1) * 7919
      + ((pos * pos) % 1009) * 31
      + ((seed * seed) % 1013) * 17
      + pos * 613 + seed * 389 ) % RawMod

\* random.Random(seed)
Random(seed) == [seed |-> seed, pos |-> 0, gauss_next |-> Nothing]

\* rng.random(): a value in thousandths of [0, 1)
rng_random(rng) ==
    [v |-> Raw(rng.seed, rng.pos), rng |-> [rng EXCEPT !.pos = @ + 1]]

\* rng.randint(a, b), a <= b
rng_randint(rng, a, b) ==
    [v |-> a + (Raw(rng.seed, rng.pos) % (b - a + 1)),
     rng |-> [rng EXCEPT !.pos = @ + 1]]

\* rng.choice(seq) for a sequence of n elements: a 1-based index
rng_choice(rng, n) ==
    [v |-> 1 + (Raw(rng.seed, rng.pos) % n), rng |-> [rng EXCEPT !.pos = @ + 1]]

\* standard normal deviates, in hundredths.  The outermost ones are the
\* tail: random.gauss returns cos(.) * sqrt(-2 * log(1 - random())) and
\* random() is a multiple of 2^-53, so a deviate reaches sqrt(2 * 53 * ln 2),
\* 8.57 standard deviations, and no further.
ZTable ==
    << -857, -450, -300, -200, -150, -100, -50, -20, 0, 20, 50, 100, 150, 200, 300, 450, 857 >>

\* rng.gauss(mu, sigma): the double mu + z * sigma of the doubles mu and
\* sigma; the deviate kept for the next call is kept in hundredths
rng_gauss(rng, mu, sigma) ==
    IF rng.gauss_next # Nothing
    THEN [v |-> FAdd[mu, FMul[Centi(rng.gauss_next[1]), sigma]],
          rng |-> [rng EXCEPT !.gauss_next = Nothing]]
    ELSE LET r1 == Raw(rng.seed, rng.pos)
             r2 == Raw(rng.seed, rng.pos + 1)
             z == ZTable[((r1 + 7 * r2) % Len(ZTable)) + 1]
             z2 == ZTable[((3 * r1 + r2) % Len(ZTable)) + 1]
         IN  [v |-> FAdd[mu, FMul[Centi(z), sigma]],
              rng |-> [rng EXCEPT !.pos = @ + 2, !.gauss_next = Some(z2)]]

\* the doubles random() returns: the draws divided by RawMod
RandomFloats == [r \in 0..(RawMod - 1) |-> FOfRatio(r, RawMod)]

\* random() as the double it is
rng_random_float(r) == RandomFloats[r]

\* list(accumulate(weights)) of the doubles weights; the entry j
RECURSIVE cum_weights(_, _)
cum_weights(probs, j) ==
    IF j = 1 THEN Centi(probs[1])
    ELSE FAdd[cum_weights(probs, j - 1), Centi(probs[j])]

\* cum_weights[j] <= random() * total, the comparison bisect makes ("+ 0.0"
\* is part of total)
bisect_passes(probs, j, r) ==
    ~FLess[FMul[rng_random_float(r), FAdd[cum_weights(probs, Len(probs)), FZero]],
           cum_weights(probs, j)]

\* bisect(cum_weights, random() * total, 0, n - 1) of random.choices, as
\* a 1-based index: the cumulative weights ascend, so the index is the
\* number of those passed
choices_index(probs, r) ==
    Cardinality({j \in 1..(Len(probs) - 1) : bisect_passes(probs, j, r)}) + 1

\* rng.choices(types, probs)[0]: a 1-based index
rng_choices(rng, probs) ==
    [v |-> choices_index(probs, Raw(rng.seed, rng.pos)), rng |-> [rng EXCEPT !.pos = @ + 1]]

\* the element of a one-element set.  A sequence of statements is written
\* {S2(y) : y \in {S1(x)}}: the inner statement is evaluated first and its
\* result bound to y, as an assignment binds a local variable
The(S) == CHOOSE x \in S : TRUE

\* the generator after k more draws of one stream element each
Advanced(rng, k) == [rng EXCEPT !.pos = @ + k]

(***************************************************************************)
(* Regimes (engine.py)                                                     *)
(***************************************************************************)

\* engine.py Regime.is_active
is_active(regime, day) ==
    regime.start_day <= day /\ day < regime.start_day + regime.duration

\* Regime.progress with the division by the duration omitted: whole days
progress_in_days(regime, day) ==
    IF ~is_active(regime, day) THEN FZero
    ELSE FOfInt(day - regime.start_day)

\* engine.py Regime.progress: 0.0 outside the regime, else the double
\* (day - start_day) / duration
progress(regime, day) ==
    IF ~is_active(regime, day) THEN FZero
    ELSE FDiv[FOfInt(day - regime.start_day), FOfInt(regime.duration)]

\* the start offset drawn at the attempt k (the first is attempt 0) of the
\* attempts loop entered with the generator rng (engine.py 223-228): every
\* attempt before it drew one offset
StartDrawn(rng, i, duration, k) ==
    (IF i = 0 THEN rng_randint(Advanced(rng, k), 5, 20)
     ELSE rng_randint(Advanced(rng, k), 18, 30 - duration)).v

\* not (days_needed & used_days) of lines 229-231
DaysFree(start, duration, used_days) ==
    (start .. (start + duration - 1)) \cap used_days = {}

\* the attempt k is the one that leaves the loop by its break: its start is
\* the first whose days are free
Breaks(rng, i, duration, used_days, k) ==
    /\ DaysFree(StartDrawn(rng, i, duration, k), duration, used_days)
    /\ \A j \in 0..(k - 1) : ~DaysFree(StartDrawn(rng, i, duration, j), duration, used_days)

\* what the loop leaves when it breaks at the attempt k
Broke(rng, i, duration, k) ==
    [found |-> TRUE, start |-> StartDrawn(rng, i, duration, k), tried |-> k + 1,
     rng |-> Advanced(rng, k + 1)]

\* what the loop leaves when its condition fails after n attempts
GaveUp(rng, n) == [found |-> FALSE, start |-> 0, tried |-> n, rng |-> Advanced(rng, n)]

\* the attempts loop with the overlap test omitted: the first start drawn
\* is taken
PickStartNoOverlapTest(rng, i, duration, used_days) == Broke(rng, i, duration, 0)

\* the attempts loop with "attempts <= 20" for "attempts < 20"
PickStartOneMore(rng, i, duration, used_days) ==
    IF \E k \in 0..20 : DaysFree(StartDrawn(rng, i, duration, k), duration, used_days)
    THEN Broke(rng, i, duration, CHOOSE k \in 0..20 : Breaks(rng, i, duration, used_days, k))
    ELSE GaveUp(rng, 21)

\* the attempts loop of _generate_regimes (engine.py 221-236): up to 20
\* start offsets are drawn; found = FALSE is the loop's else branch, tried
\* the number of start offsets drawn
PickStart(rng, i, duration, used_days) ==
    IF \E k \in 0..19 : DaysFree(StartDrawn(rng, i, duration, k), duration, used_days)
    THEN Broke(rng, i, duration, CHOOSE k \in 0..19 : Breaks(rng, i, duration, used_days, k))
    ELSE GaveUp(rng, 20)

\* the duration drawn for a regime type (engine.py 211-217)
PickDuration(rng, regime_type) ==
    IF regime_type = "SUPPLY_SHOCK" THEN rng_randint(rng, 7, 12)
    ELSE IF regime_type = "MEAN_REVERSION" THEN rng_randint(rng, 6, 10)
    ELSE rng_randint(rng, 5, 9)

\* The for loop of _generate_regimes (engine.py 207-246).  st holds the
\* generator, used_days and regimes between the iterations; st.passes
\* records, for each iteration, the duration drawn, the number of start
\* offsets drawn and whether a regime was appended.

\* the regime type t and the duration du drawn (lines 208-217)
RegimeDuration(t, du) == [type |-> RegimeTypes[t.v], duration |-> du.v, rng |-> du.rng]

\* the attempts loop returned p for the regime d (lines 221-236)
RegimeStart(d, p) ==
    [type |-> d.type, duration |-> d.duration, found |-> p.found, start |-> p.start,
     tried |-> p.tried, rng |-> p.rng]

\* the end of the iteration: the loop's else branch skips the regime (lines
\* 234-236), otherwise it is appended (lines 238-246), u being the intensity
\* draw
RegimeAppend(st, p, u) ==
    IF ~p.found
    THEN [st EXCEPT !.rng = p.rng,
                    !.passes = Append(@, [duration |-> p.duration, tried |-> p.tried,
                                          placed |-> FALSE])]
    ELSE [rng |-> u.rng,
          used_days |-> st.used_days \cup (p.start .. (p.start + p.duration - 1)),
          regimes |-> Append(st.regimes,
                             [type |-> p.type, start_day |-> p.start, duration |-> p.duration,
                              intensity |-> FAdd[Centi(50), FMul[rng_random_float(u.v), Centi(50)]]]),
          passes |-> Append(st.passes, [duration |-> p.duration, tried |-> p.tried,
                                        placed |-> TRUE])]

RECURSIVE RegimeLoop(_, _, _, _)
RegimeLoop(st, config, i, n_regimes) ==
    IF i >= n_regimes THEN st
    ELSE The({RegimeLoop(s, config, i + 1, n_regimes) : s \in
             {RegimeAppend(st, p, rng_random(p.rng)) : p \in
             {RegimeStart(d, PickStart(d.rng, i, d.duration, st.used_days)) : d \in
             {RegimeDuration(t, PickDuration(t.rng, RegimeTypes[t.v])) : t \in
             {rng_choices(st.rng, config.regime_weights)}}}}})

\* sorted(regimes, key=lambda r: r.start_day): a stable insertion sort
RECURSIVE InsertByStart(_, _)
InsertByStart(sorted, r) ==
    IF sorted = << >> THEN << r >>
    ELSE IF r.start_day < sorted[Len(sorted)].start_day
         THEN Append(InsertByStart(SubSeq(sorted, 1, Len(sorted) - 1), r), sorted[Len(sorted)])
         ELSE Append(sorted, r)

RECURSIVE SortByStart(_)
SortByStart(regimes) ==
    IF regimes = << >> THEN << >>
    ELSE InsertByStart(SortByStart(SubSeq(regimes, 1, Len(regimes) - 1)), regimes[Len(regimes)])

\* _generate_regimes with n_regimes = 0 if random() < 0.6 else 2
generate_regimes_zero_or_two(config, rng) ==
    LET c == rng_random(rng)
        n_regimes == IF c.v * 10 < 6 * RawMod THEN 0 ELSE 2
        loop == RegimeLoop([rng |-> c.rng, used_days |-> {}, regimes |-> << >>,
                            passes |-> << >>], config, 0, n_regimes)
    IN  [regimes |-> SortByStart(loop.regimes), rng |-> loop.rng,
         n_regimes |-> n_regimes, passes |-> loop.passes]

\* engine.py RegionSimulator._generate_regimes
generate_regimes(config, rng) ==
    LET c == rng_random(rng)
        n_regimes == IF c.v * 10 < 6 * RawMod THEN 1 ELSE 2
        loop == RegimeLoop([rng |-> c.rng, used_days |-> {}, regimes |-> << >>,
                            passes |-> << >>], config, 0, n_regimes)
    IN  [regimes |-> SortByStart(loop.regimes), rng |-> loop.rng,
         n_regimes |-> n_regimes, passes |-> loop.passes]

\* engine.py RegionSimulator._get_active_regime
RECURSIVE FirstActive(_, _, _)
FirstActive(regimes, day, k) ==
    IF k > Len(regimes) THEN NoRegime
    ELSE IF is_active(regimes[k], day) THEN regimes[k]
    ELSE FirstActive(regimes, day, k + 1)

get_active_regime(regimes, day) == FirstActive(regimes, day, 1)

\* engine.py RegionSimulator._regime_satellite_effect: the intensity of
\* regime, the state scalar of self (read by the MEAN_REVERSION branch) and
\* progress_ are doubles
regime_satellite_effect(self, regime, progress_) ==
    IF regime = NoRegime THEN FZero
    ELSE CASE regime.type = "HYPE_PUMP" -> FMul[Centi(-15), regime.intensity]
           [] regime.type = "SUPPLY_SHOCK" ->
                IF FLess[progress_, Centi(30)]
                THEN FMul[FMul[Centi(-60), regime.intensity],
                          FSub[Whole(1), FDiv[progress_, Centi(30)]]]
                ELSE FMul[FMul[Centi(-60), regime.intensity],
                          FSub[Whole(1),
                               FMul[FDiv[FSub[progress_, Centi(30)], Centi(70)], Centi(70)]]]
           [] regime.type = "PANIC_SELL" -> FMul[Centi(10), regime.intensity]
           [] regime.type = "REAL_GROWTH" -> FMul[Centi(35), regime.intensity]
           [] regime.type = "MEAN_REVERSION" ->
                FMul[FMul[FMul[FNeg[self.sat_state], Centi(30)], progress_], regime.intensity]
           [] OTHER -> FZero

\* the catch_up of the SUPPLY_SHOCK branch of _regime_news_effect
catch_up(progress_) ==
    FMin[Whole(1), FDiv[FSub[progress_, Centi(25)], Centi(50)]]

\* engine.py RegionSimulator._regime_news_effect, the sentiment modifier;
\* news_state is the double self._news_state holds
regime_sentiment_mod(news_state, regime, progress_) ==
    IF regime = NoRegime THEN FZero
    ELSE CASE regime.type = "HYPE_PUMP" -> FMul[Centi(50), regime.intensity]
           [] regime.type = "SUPPLY_SHOCK" ->
                IF FLess[progress_, Centi(25)]
                THEN FMul[Centi(-10), regime.intensity]
                ELSE FMul[FMul[Centi(-45), regime.intensity], catch_up(progress_)]
           [] regime.type = "PANIC_SELL" -> FMul[Centi(-55), regime.intensity]
           [] regime.type = "REAL_GROWTH" -> FMul[Centi(25), regime.intensity]
           [] regime.type = "MEAN_REVERSION" ->
                FMul[FMul[FMul[FNeg[news_state], Centi(40)], progress_], regime.intensity]
           [] OTHER -> FZero

\* engine.py RegionSimulator._regime_news_effect, the hype boost
regime_hype_boost(regime, progress_) ==
    IF regime = NoRegime THEN FZero
    ELSE CASE regime.type = "HYPE_PUMP" -> FMul[Whole(40), regime.intensity]
           [] regime.type = "SUPPLY_SHOCK" ->
                IF FLess[progress_, Centi(25)]
                THEN FMul[Whole(10), regime.intensity]
                ELSE FMul[FMul[Whole(30), regime.intensity], catch_up(progress_)]
           [] regime.type = "PANIC_SELL" -> FMul[Whole(25), regime.intensity]
           [] regime.type = "REAL_GROWTH" -> FMul[Whole(5), regime.intensity]
           [] regime.type = "MEAN_REVERSION" -> FMul[Whole(-10), regime.intensity]
           [] OTHER -> FZero

\* regime.progress(day) if regime else 0, as generate_satellite and
\* generate_news hand it to the regime effects
progress_or_zero(regime, day) ==
    IF regime # NoRegime THEN progress(regime, day) ELSE FZero

\* date.weekday() of a proleptic Gregorian ordinal (Monday = 0)
weekday(day_date) == (day_date + 6) % 7

\* max(lo, min(hi, x)) with the ceiling omitted
ClampFloorOnly(lo, hi, x) == Max(lo, x)

\* max(lo, min(hi, x))
Clamp(lo, hi, x) == Max(lo, Min(hi, x))

\* The narrative normalizers.  Sentiment and diversity are in hundredths; the
\* result is in (2 * Scale)-ths of a hundredth, so that
\* sentiment * (0.5 + 0.5 * diversity) is sentiment * (Scale + diversity).

\* engine.py _generate_news: adjusted_score = sentiment * diversity_factor
RegionSimulator_adjusted_score(sentiment, diversity) == sentiment * (Scale + diversity)

\* signals.py NewsSignal._compute_score
NewsSignal_compute_score(sentiment_score, source_diversity) ==
    Clamp(-(Scale * 2 * Scale), Scale * 2 * Scale, sentiment_score * (Scale + source_diversity))

\* analysis.py SignalAnalyzer._normalize_news_score
SignalAnalyzer_normalize_news_score(sentiment_score, source_diversity) ==
    sentiment_score * (Scale + source_diversity)

\* main.py normalize_news_score: max(-1, min(1, sentiment * factor * 2))
normalize_news_score(sentiment, diversity) ==
    Clamp(-(Scale * 2 * Scale), Scale * 2 * Scale, sentiment * (Scale + diversity) * 2)

\* The body of _generate_satellite (engine.py 325-378), statement by
\* statement.  f holds the object and the local variables; a local not yet
\* assigned is None.
SatelliteLocals ==
    [self |-> None, error |-> None, day |-> None, weekend_mult |-> None, noise |-> None,
     regime |-> None, regime_effect |-> None, score |-> None, night_light_delta |-> None,
     ndvi_delta |-> None, volatility_penalty |-> None, confidence |-> None]

\* the weekend multiplier (lines 328-331) and the noise drawn (line 334)
SatelliteNoise(self, day, day_date, noise) ==
    [SatelliteLocals EXCEPT
        !.self = [self EXCEPT !.rng = noise.rng],
        !.day = day,
        !.weekend_mult = IF weekday(day_date) >= 5 THEN Centi(self.config.sat_weekend_effect)
                         ELSE Whole(1),
        !.noise = noise.v]

\* self._sat_state assigned (lines 335-339)
SatelliteState(f) ==
    [f EXCEPT !.self.sat_state =
        FAdd[FAdd[FMul[Centi(f.self.config.sat_trend_persistence), f.self.sat_state],
                  FMul[FSub[Whole(1), Centi(f.self.config.sat_trend_persistence)],
                       Centi(f.self.config.sat_baseline)]],
             f.noise],
              !.regime = get_active_regime(f.self.regimes, f.day)]

\* the regime effect (lines 342-345)
SatelliteEffect(f) ==
    [f EXCEPT !.regime_effect =
        regime_satellite_effect(f.self, f.regime, progress_or_zero(f.regime, f.day))]

\* the clamped score (lines 348-351)
SatelliteScore(f) ==
    [f EXCEPT !.score =
        FClamp[Whole(-1), Whole(1),
               FMul[FAdd[f.self.sat_state, f.regime_effect], f.weekend_mult]]]

\* the night-lights delta (line 355), g the deviate drawn
SatelliteNight(f, g) ==
    [f EXCEPT !.self.rng = g.rng,
              !.night_light_delta = FAdd[FMul[f.score, Whole(40)], g.v]]

\* the NDVI delta (line 356), g the deviate drawn
SatelliteNdvi(f, g) ==
    [f EXCEPT !.self.rng = g.rng,
              !.ndvi_delta = FAdd[FMul[FNeg[f.score], Whole(20)], g.v]]

\* min(0.3, abs(noise) / config.sat_volatility * 0.15) of line 360: the
\* division raises when sat_volatility is zero
SatellitePenalty(f) ==
    IF f.self.config.sat_volatility = 0 THEN [f EXCEPT !.error = "ZeroDivisionError"]
    ELSE [f EXCEPT !.volatility_penalty =
              FMin[Centi(30),
                   FMul[FDiv[FAbs[f.noise], Centi(f.self.config.sat_volatility)], Centi(15)]]]

\* the confidence (lines 359-362), g the deviate drawn; abs(score) / 1.0 is
\* abs(score)
SatelliteConfidence(f, g) ==
    IF f.error # None THEN f
    ELSE [f EXCEPT !.self.rng = g.rng,
                   !.confidence =
                       FClamp[Centi(30), Centi(95),
                              FAdd[FSub[FAdd[Centi(60), FMul[Centi(35), FAbs[f.score]]],
                                        f.volatility_penalty],
                                   g.v]]]

\* what the call gives: the object after it and, unless it raised, the
\* score and the SatelliteRaw record (lines 354, 365-378)
SatelliteResult(f) ==
    IF f.error # None THEN [self |-> f.self, error |-> f.error]
    ELSE [self |-> f.self,
          error |-> None,
          score |-> f.score,
          raw |-> [proxy_type |-> f.self.config.proxy_type,
                   activity_delta_pct |-> FMul[f.score, Whole(60)],
                   baseline_window_days |-> 30,
                   anomaly_strength |->
                       FMin[Whole(1),
                            FDiv[FAbs[FSub[f.score, Centi(f.self.config.sat_baseline)]],
                                 Centi(50)]],
                   confidence |-> f.confidence,
                   night_light_delta_pct |-> f.night_light_delta,
                   ndvi_delta_pct |-> f.ndvi_delta]]

\* engine.py RegionSimulator._generate_satellite.  Returns the simulator
\* object after the call, the score and the raw record; error is
\* "ZeroDivisionError" when the division by sat_volatility raises (the
\* state and the generator keep what was assigned before the raise).
generate_satellite(self, day, day_date) ==
    The({SatelliteResult(f) : f \in
        {SatelliteConfidence(f, rng_gauss(f.self.rng, FZero, Centi(5))) : f \in
        {SatellitePenalty(f) : f \in
        {SatelliteNdvi(f, rng_gauss(f.self.rng, FZero, Whole(3))) : f \in
        {SatelliteNight(f, rng_gauss(f.self.rng, FZero, Whole(5))) : f \in
        {SatelliteScore(f) : f \in
        {SatelliteEffect(f) : f \in
        {SatelliteState(f) : f \in
        {SatelliteNoise(self, day, day_date,
                        rng_gauss(self.rng, FZero, Centi(self.config.sat_volatility)))}}}}}}}}})

(***************************************************************************)
(* Headline generator (headlines.py).  A template is <<category, index>>;  *)
(* a title is the template with the region name substituted.               *)
(***************************************************************************)

\* headlines.py TEMPLATES: the number of templates of each category
TEMPLATES ==
    [ bullish |-> 8, bearish |-> 8, neutral |-> 6, hype_pump |-> 6,
      supply_shock |-> 6, panic_sell |-> 6, recovery |-> 5 ]

\* headlines.py SOURCES: the number of sources
SOURCES == 12

\* the regime coin of _pick_template (headlines.py 110-118): u the draw,
\* tenths the odds, pool the one picked from when the coin hits
RegimeCoin(u, tenths, pool) ==
    [hit |-> u.v * 10 < tenths * RawMod, pool |-> pool, rng |-> u.rng]

\* the coin tossed for the regime, if any
RegimePool(rng, regime) ==
    IF regime = NoRegime THEN [hit |-> FALSE, rng |-> rng]
    ELSE CASE regime.type = "HYPE_PUMP" -> RegimeCoin(rng_random(rng), 6, "hype_pump")
           [] regime.type = "SUPPLY_SHOCK" -> RegimeCoin(rng_random(rng), 7, "supply_shock")
           [] regime.type = "PANIC_SELL" -> RegimeCoin(rng_random(rng), 6, "panic_sell")
           [] regime.type = "MEAN_REVERSION" -> RegimeCoin(rng_random(rng), 4, "recovery")
           [] OTHER -> [hit |-> FALSE, rng |-> rng]

\* the pool picked from: the regime's, else the one of the sentiment
\* (headlines.py 121-128)
PoolOf(gate, sentiment) ==
    IF gate.hit THEN gate.pool
    ELSE IF FLess[Centi(25), sentiment] THEN "bullish"
    ELSE IF FLess[sentiment, Centi(-25)] THEN "bearish"
    ELSE "neutral"

\* rng.choice(TEMPLATES[pool]), c the index drawn
TemplateOf(pool, c) == [template |-> << pool, c.v >>, rng |-> c.rng]

\* headlines.py HeadlineGenerator._pick_template; sentiment is the double
\* _generate_news hands over
pick_template(rng, sentiment, regime) ==
    The({TemplateOf(g.pool, rng_choice(g.rng, TEMPLATES[g.pool])) : g \in
        {[pool |-> PoolOf(gate, sentiment), rng |-> gate.rng] : gate \in
        {RegimePool(rng, regime)}}})

\* headlines.py HeadlineGenerator._headline_sentiment: the double returned
\* for the draw (every template belongs to a category, so the final
\* "return base_sentiment" is not reached); the last branch is
\* rng.uniform(-0.2, 0.2), which is a + (b - a) * random()
headline_sentiment_of(category, u) ==
    IF category \in {"bullish", "hype_pump"}
    THEN FAdd[Centi(50), FMul[rng_random_float(u), Centi(40)]]
    ELSE IF category \in {"bearish", "panic_sell", "supply_shock"}
    THEN FSub[Centi(-50), FMul[rng_random_float(u), Centi(40)]]
    ELSE IF category = "recovery"
    THEN FAdd[Centi(20), FMul[rng_random_float(u), Centi(30)]]
    ELSE FAdd[Centi(-20), FMul[FSub[Centi(20), Centi(-20)], rng_random_float(u)]]

headline_sentiment_drawn(template, u) ==
    [v |-> headline_sentiment_of(template[1], u.v), rng |-> u.rng]

headline_sentiment(rng, template, base_sentiment) ==
    headline_sentiment_drawn(template, rng_random(rng))

\* the stream elements one _pick_template call consumes: the regime coin,
\* tossed for the four regime types that have a pool, and the choice
PickDraws(regime) ==
    IF regime # NoRegime
       /\ regime.type \in {"HYPE_PUMP", "SUPPLY_SHOCK", "PANIC_SELL", "MEAN_REVERSION"}
    THEN 2 ELSE 1

\* the pick k (the first is pick 0) of the "pick unique template" loop
\* entered with the generator rng
PickAt(rng, sentiment, regime, k) ==
    The({pick_template(r, sentiment, regime) : r \in {Advanced(rng, k * PickDraws(regime))}})

\* the pick k leaves the loop by its break: its template is the first not
\* used yet
PickBreaks(rng, sentiment, regime, used_templates, k) ==
    /\ PickAt(rng, sentiment, regime, k).template \notin used_templates
    /\ \A j \in 0..(k - 1) : PickAt(rng, sentiment, regime, j).template \in used_templates

\* the template the loop leaves and used_templates after the add
Picked(p, used_templates) ==
    [template |-> p.template, used |-> used_templates \cup {p.template}, rng |-> p.rng]

\* the "pick unique template" loop of generate (headlines.py 158-164): at
\* most 10 picks; when all 10 were used already the last pick is kept
PickUnique(rng, sentiment, regime, used_templates) ==
    IF \E k \in 0..9 : PickAt(rng, sentiment, regime, k).template \notin used_templates
    THEN The({Picked(p, used_templates) : p \in
             {PickAt(rng, sentiment, regime, k) : k \in
             {CHOOSE k \in 0..9 : PickBreaks(rng, sentiment, regime, used_templates, k)}}})
    ELSE The({Picked(p, used_templates) : p \in {PickAt(rng, sentiment, regime, 9)}})

\* The for loop of generate (headlines.py 156-180).  st holds the generator,
\* used_templates and headlines between the iterations.

\* the source src drawn for the template picked (line 170)
HeadlineSource(t, src) ==
    [template |-> t.template, used |-> t.used, source |-> src.v, rng |-> src.rng]

\* the headline appended (lines 173-180), hs the sentiment drawn
HeadlineAppend(st, region_name, day_date, t, hs) ==
    [headlines |-> Append(st.headlines, [title |-> << t.template, region_name >>,
                                         source |-> t.source,
                                         date |-> day_date,
                                         sentiment |-> hs.v]),
     used_templates |-> t.used,
     rng |-> hs.rng]

RECURSIVE HeadlineLoop(_, _, _, _, _, _)
HeadlineLoop(st, region_name, day_date, sentiment, regime, k) ==
    IF k <= 0 THEN st
    ELSE CHOOSE r \in
             {HeadlineLoop(s, region_name, day_date, sentiment, regime, k - 1) : s \in
             {HeadlineAppend(st, region_name, day_date, t,
                             headline_sentiment(t.rng, t.template, sentiment)) : t \in
             {HeadlineSource(t, rng_choice(t.rng, SOURCES)) : t \in
             {PickUnique(st.rng, sentiment, regime, st.used_templates)}}}} : TRUE

\* abs(h.sentiment) > abs(g.sentiment)
more_impact(h, g) == FLess[FAbs[g.sentiment], FAbs[h.sentiment]]

\* the number of headlines the sort puts before headlines[i]: those of
\* more impact and, the sort being stable, the earlier ones of equal impact
Before(headlines, i) ==
    Cardinality({j \in 1..Len(headlines) :
                    \/ more_impact(headlines[j], headlines[i])
                    \/ j < i /\ ~more_impact(headlines[i], headlines[j])})

\* headlines.sort(key=lambda h: abs(h.sentiment), reverse=True): stable
SortByImpact(headlines) ==
    [r \in 1..Len(headlines) |->
        headlines[CHOOSE i \in 1..Len(headlines) : Before(headlines, i) = r - 1]]

\* headlines.py HeadlineGenerator.generate
HeadlineGenerator_generate(rng, region_name, day_date, sentiment, regime, count) ==
    The({[headlines |-> SortByImpact(st.headlines), rng |-> st.rng] : st \in
        {HeadlineLoop([rng |-> rng, used_templates |-> {}, headlines |-> << >>],
                      region_name, day_date, sentiment, regime, count)}})

\* a test double for HeadlineGenerator.generate: fixed text, no draw
StubHeadlines(rng, region_name, day_date, sentiment, regime, count) ==
    [headlines |-> << [title |-> << << "neutral", 1 >>, region_name >>, source |-> 1,
                       date |-> day_date, sentiment |-> FZero] >>,
     rng |-> rng]

(***************************************************************************)
(* Day generation (engine.py)                                              *)
(***************************************************************************)

\* a headline collaborator that raises instead of returning
FailingHeadlines(rng, region_name, day_date, sentiment, regime, count) ==
    [error |-> "HeadlineError", rng |-> rng]

\* what the call of the collaborator gives when it returns h
Returned(h) == [error |-> None, headlines |-> h.headlines, rng |-> h.rng]

\* the headline collaborator called by _generate_news (engine.py 444-452);
\* stub = "stub" is the run with HeadlineGenerator.generate replaced by
\* the test double, stub = "raise" the run with a collaborator that
\* raises, stub = "real" the run with headlines.py
Headlines(stub, rng, region_name, day_date, sentiment, regime, count) ==
    CASE stub = "stub" ->
           Returned(StubHeadlines(rng, region_name, day_date, sentiment, regime, count))
      [] stub = "raise" ->
           FailingHeadlines(rng, region_name, day_date, sentiment, regime, count)
      [] OTHER ->
           Returned(HeadlineGenerator_generate(rng, region_name, day_date, sentiment, regime, count))

\* the hype intensity of lines 420-427, from its components
hype_intensity_of(self, hype_boost, volume, duplicate_ratio, pump_lexicon) ==
    FClamp[Whole(0), Whole(100),
           FAdd[FAdd[FAdd[FAdd[FMul[Centi(self.config.news_hype_tendency), Whole(40)],
                               hype_boost],
                          FMul[duplicate_ratio, Whole(30)]],
                     FMul[pump_lexicon, Whole(20)]],
                FMul[FSub[FDiv[Whole(volume), Whole(self.config.news_volume_baseline)],
                          Whole(1)],
                     Whole(15)]]]

\* the confidence of lines 440-442, gauss the deviate drawn
news_confidence_of(volume, diversity, gauss) ==
    FClamp[Centi(30), Centi(95),
           FAdd[FAdd[FAdd[Centi(40),
                          FMul[Centi(30), FMin[Whole(1), FDiv[Whole(volume), Whole(100)]]]],
                     FMul[Centi(25), diversity]],
                gauss]]

\* what a HYPE_PUMP regime adds: factor * regime.intensity, else nothing
\* (the statement is skipped)
pump_added(regime, x, factor) ==
    IF regime.type = "HYPE_PUMP" THEN FAdd[x, FMul[factor, regime.intensity]] ELSE x

\* diversity -= 0.2 * regime.intensity under a HYPE_PUMP regime
pump_taken(regime, x, factor) ==
    IF regime.type = "HYPE_PUMP" THEN FSub[x, FMul[factor, regime.intensity]] ELSE x

\* spike of line 403, u the draw
spike(u) == IF u.v * 10 < RawMod THEN Centi(150) ELSE Whole(1)

\* int(config.news_volume_baseline * volume_mult * spike) of lines 402-404
volume_int(self, hype_boost, u) ==
    FInt(FMul[FMul[Whole(self.config.news_volume_baseline),
                   FAdd[Whole(1), FDiv[hype_boost, Whole(100)]]],
              spike(u)])

\* The body of _generate_news (engine.py 380-465), statement by statement.
\* f holds the object and the local variables; a local not yet assigned is
\* None.
NewsLocals ==
    [self |-> None, error |-> None, day |-> None, day_date |-> None, noise |-> None,
     regime |-> None, sentiment_mod |-> None, hype_boost |-> None, sentiment |-> None,
     volume |-> None, duplicate_ratio |-> None, pump_lexicon |-> None,
     hype_intensity |-> None, diversity |-> None, adjusted_score |-> None,
     confidence |-> None, top_headlines |-> None]

\* the noise drawn (line 385)
NewsNoise(self, day, day_date, noise) ==
    [NewsLocals EXCEPT !.self = [self EXCEPT !.rng = noise.rng],
                       !.day = day, !.day_date = day_date, !.noise = noise.v]

\* self._news_state assigned (lines 386-390)
NewsState(f) ==
    [f EXCEPT !.self.news_state =
        FAdd[FAdd[FMul[Centi(70), f.self.news_state],
                  FMul[Centi(30), Centi(f.self.config.news_sentiment_bias)]],
             f.noise],
              !.regime = get_active_regime(f.self.regimes, f.day)]

\* the regime effect (lines 392-396)
NewsEffect(f) ==
    [f EXCEPT !.sentiment_mod =
                  regime_sentiment_mod(f.self.news_state, f.regime,
                                      progress_or_zero(f.regime, f.day)),
              !.hype_boost = regime_hype_boost(f.regime, progress_or_zero(f.regime, f.day))]

\* the clamped sentiment (lines 398-399)
NewsSentiment(f) ==
    [f EXCEPT !.sentiment = FClamp[Whole(-1), Whole(1),
                                   FAdd[f.self.news_state, f.sentiment_mod]]]

\* the volume before its noise (lines 402-404), u the spike draw
NewsVolume(f, u) ==
    [f EXCEPT !.self.rng = u.rng, !.volume = volume_int(f.self, f.hype_boost, u)]

\* the volume (line 405), r the noise drawn
NewsVolumeNoise(f, r) ==
    [f EXCEPT !.self.rng = r.rng, !.volume = Clamp(10, 300, @ + r.v)]

\* the duplicate ratio (line 409), u the draw
NewsDuplicateRatio(f, u) ==
    [f EXCEPT !.self.rng = u.rng,
              !.duplicate_ratio =
                  FAdd[FAdd[Centi(10),
                            FMul[Centi(f.self.config.news_hype_tendency), Centi(30)]],
                       FMul[rng_random_float(u.v), Centi(20)]]]

\* the pump lexicon rate (line 410), u the draw
NewsPumpLexicon(f, u) ==
    [f EXCEPT !.self.rng = u.rng,
              !.pump_lexicon =
                  FAdd[FAdd[Centi(5), FMul[FMax[Whole(0), f.sentiment], Centi(30)]],
                       FMul[rng_random_float(u.v), Centi(10)]]]

\* the HYPE_PUMP additions and the two ceilings (lines 412-417)
NewsPump(f) ==
    [f EXCEPT !.duplicate_ratio = FMin[Centi(80), pump_added(f.regime, @, Centi(20))],
              !.pump_lexicon = FMin[Centi(60), pump_added(f.regime, @, Centi(25))]]

\* the hype intensity (lines 420-427): the division by news_volume_baseline
\* of line 425 raises when it is zero
NewsHype(f) ==
    IF f.self.config.news_volume_baseline = 0 THEN [f EXCEPT !.error = "ZeroDivisionError"]
    ELSE [f EXCEPT !.hype_intensity =
              hype_intensity_of(f.self, f.hype_boost, f.volume, f.duplicate_ratio,
                                f.pump_lexicon)]

\* the source diversity (lines 430-433), g the deviate drawn
NewsDiversity(f, g) ==
    IF f.error # None THEN f
    ELSE [f EXCEPT !.self.rng = g.rng,
                   !.diversity =
                       FClamp[Centi(20), Centi(95),
                              FAdd[pump_taken(f.regime,
                                              Centi(f.self.config.news_diversity_baseline),
                                              Centi(20)),
                                   g.v]]]

\* the adjusted score and the confidence (lines 436-442), g the deviate
\* drawn
NewsConfidence(f, g) ==
    IF f.error # None THEN f
    ELSE [f EXCEPT !.self.rng = g.rng,
                   !.adjusted_score =
                       FMul[f.sentiment, FAdd[Centi(50), FMul[Centi(50), f.diversity]]],
                   !.confidence = news_confidence_of(f.volume, f.diversity, g.v)]

\* the headlines (lines 444-452), h what the collaborator gave; the call
\* is not inside a try, so what the collaborator raises escapes
NewsHeadlines(f, h) ==
    IF f.error # None THEN f
    ELSE IF h.error # None THEN [f EXCEPT !.self.rng = h.rng, !.error = h.error]
    ELSE [f EXCEPT !.self.rng = h.rng, !.top_headlines = h.headlines]

\* what the call gives: the object after it and, unless it raised, the
\* score and the NewsRaw record (lines 454-465)
NewsResult(f) ==
    IF f.error # None THEN [self |-> f.self, error |-> f.error]
    ELSE [self |-> f.self,
          error |-> None,
          score |-> f.adjusted_score,
          raw |-> [sentiment_score |-> f.adjusted_score,
                   hype_intensity |-> f.hype_intensity,
                   headline_volume |-> f.volume,
                   duplicate_ratio |-> f.duplicate_ratio,
                   pump_lexicon_rate |-> f.pump_lexicon,
                   source_diversity |-> f.diversity,
                   confidence |-> f.confidence,
                   top_headlines |-> f.top_headlines]]

\* engine.py RegionSimulator._generate_news
generate_news(self, day, day_date, sat_score, stub) ==
    The({NewsResult(f) : f \in
        {NewsHeadlines(f, Headlines(stub, f.self.rng, f.self.config.name, f.day_date,
                                    f.sentiment, f.regime, 5)) : f \in
        {NewsConfidence(f, rng_gauss(f.self.rng, FZero, Centi(5))) : f \in
        {NewsDiversity(f, rng_gauss(f.self.rng, FZero, Centi(5))) : f \in
        {NewsHype(f) : f \in
        {NewsPump(f) : f \in
        {NewsPumpLexicon(f, rng_random(f.self.rng)) : f \in
        {NewsDuplicateRatio(f, rng_random(f.self.rng)) : f \in
        {NewsVolumeNoise(f, rng_randint(f.self.rng, -20, 20)) : f \in
        {NewsVolume(f, rng_random(f.self.rng)) : f \in
        {NewsSentiment(f) : f \in
        {NewsEffect(f) : f \in
        {NewsState(f) : f \in
        {NewsNoise(self, day, day_date, rng_gauss(self.rng, FZero, Centi(12)))}}}}}}}}}}}}}})

\* _compute_divergence with the min(100.0, ...) of its return omitted, on
\* the doubles
RegionSimulator_compute_divergence_float_uncapped(sat_score, news_score, sat_confidence, news_confidence, hype_intensity) ==
    FMul[FMul[FMul[FDiv[FAbs[FSub[sat_score, news_score]], Whole(2)],
                   FDiv[FAdd[sat_confidence, news_confidence], Whole(2)]],
              FAdd[Whole(1), FMul[FDiv[hype_intensity, Whole(100)], Centi(50)]]],
         Whole(100)]

\* engine.py RegionSimulator._compute_divergence on the doubles generate_day
\* hands it
RegionSimulator_compute_divergence_float(sat_score, news_score, sat_confidence, news_confidence, hype_intensity) ==
    FMin[Whole(100),
         FMul[FMul[FMul[FDiv[FAbs[FSub[sat_score, news_score]], Whole(2)],
                        FDiv[FAdd[sat_confidence, news_confidence], Whole(2)]],
                   FAdd[Whole(1), FMul[FDiv[hype_intensity, Whole(100)], Centi(50)]]],
              Whole(100)]]

\* the SimulationDay built by generate_day (engine.py 505-522)
DayRecord(self, day_offset, day_date, sat, news) ==
    [self |-> news.self,
     error |-> None,
     day |-> [date |-> day_date,
              day_offset |-> day_offset,
              satellite_score |-> sat.score,
              news_score |-> news.score,
              divergence_score |->
                  RegionSimulator_compute_divergence_float(
                      sat.score, news.score, sat.raw.confidence,
                      news.raw.confidence, news.raw.hype_intensity),
              satellite_raw |-> sat.raw,
              news_raw |-> news.raw,
              active_regime |-> get_active_regime(self.regimes, day_offset)]]

\* generate_day after _generate_news returned news (or raised)
DayAfterNews(self, day_offset, day_date, sat, news) ==
    IF news.error # None THEN [self |-> news.self, error |-> news.error]
    ELSE DayRecord(self, day_offset, day_date, sat, news)

\* generate_day after _generate_satellite returned sat (or raised)
DayAfterSatellite(self, day_offset, day_date, stub, sat) ==
    IF sat.error # None THEN [self |-> sat.self, error |-> sat.error]
    ELSE DayAfterNews(self, day_offset, day_date, sat,
                      generate_news(sat.self, day_offset, day_date, sat.score, stub))

\* engine.py RegionSimulator.generate_day: the object after the call and
\* the day record, or the error that escaped
generate_day(self, day_offset, stub) ==
    DayAfterSatellite(self, day_offset, self.base_date - (29 - day_offset), stub,
                      generate_satellite(self, day_offset, self.base_date - (29 - day_offset)))

\* The list comprehension of generate_series (engine.py 531) over
\* range(lo, hi).  st holds the object and the records so far, or the error
\* that escaped.  The days of the first half of the range are generated,
\* then those of the second half on the object the first half left, which
\* is the order of the comprehension and keeps the evaluation shallow.

\* the record r.day appended, r being what generate_day returned
SeriesDay(st, r) ==
    IF r.error # None THEN [self |-> r.self, error |-> r.error]
    ELSE [self |-> r.self, error |-> None, series |-> Append(st.series, r.day)]

RECURSIVE SeriesRange(_, _, _, _)
SeriesRange(st, lo, hi, stub) ==
    IF st.error # None \/ lo >= hi THEN st
    ELSE IF hi = lo + 1 THEN SeriesDay(st, generate_day(st.self, lo, stub))
    ELSE CHOOSE r \in {SeriesRange(left, (lo + hi) \div 2, hi, stub) : left \in
                       {SeriesRange(st, lo, (lo + hi) \div 2, stub)}} : TRUE

\* the object after the reset and no record yet
SeriesStart(self) == [self |-> self, error |-> None, series |-> << >>]

\* generate_series without the reset: generator and state scalars are
\* left as the previous calls left them
ResetForSeriesOmitted(self) == self

\* the reset at the head of generate_series (engine.py 527-529)
ResetForSeries(self) ==
    [self EXCEPT !.rng = Random(self.seed),
                 !.sat_state = Centi(self.config.sat_baseline),
                 !.news_state = Centi(self.config.news_sentiment_bias)]

\* generate_series with range(1, n_days) for range(n_days)
generate_series_from_one(self, n_days, stub) ==
    SeriesRange(SeriesStart(ResetForSeries(self)), 1, n_days, stub)

\* engine.py RegionSimulator.generate_series
generate_series(self, n_days, stub) ==
    SeriesRange(SeriesStart(ResetForSeries(self)), 0, n_days, stub)

(***************************************************************************)
(* Construction (engine.py RegionSimulator.__init__)                       *)
(***************************************************************************)

\* the region ids callers pass; "atlantis" is not configured, "stress",
\* "flat" and "mute" are configured only once a caller registered them
RegionCode ==
    [ shanghai |-> 1, shenzhen |-> 2, suez |-> 3, la_port |-> 4, rotterdam |-> 5,
      stress |-> 6, atlantis |-> 7, flat |-> 8, mute |-> 9 ]

\* the seeds of the model: SeedSpace stands for the 2^32 values of
\* "& 0xFFFFFFFF"
SeedSpace == 256

\* the values of the built-in hash of a string
HashSpace == 1048576

\* hash(f"{region_id}:{base_date.isoformat()}"): the built-in string hash
\* is keyed by the interpreter process (PYTHONHASHSEED); hash_key is the
\* key of the process that evaluates it.  The result is signed.
StrHash(hash_key, region_id, base_date) ==
    ( ( (hash_key + 1) * (RegionCode[region_id] * 7919 + (base_date % 1009) * 131 + 17)
        + hash_key * hash_key * 31 ) % HashSpace ) - HashSpace \div 2

\* engine.py RegionSimulator.__init__ from the profile found on (lines
\* 179-191)
RegionSimulator_init_from(config, region_id, base_date, hash_key) ==
    LET seed == StrHash(hash_key, region_id, base_date) % SeedSpace
        g == generate_regimes(config, Random(seed))
    IN  [ region_id |-> region_id,
          config |-> config,
          base_date |-> base_date,
          seed |-> seed,
          rng |-> g.rng,
          regimes |-> g.regimes,
          sat_state |-> Centi(config.sat_baseline),
          news_state |-> Centi(config.news_sentiment_bias) ]

\* engine.py RegionSimulator.__init__ (base_date given), evaluated in a
\* process whose string-hash key is hash_key
RegionSimulator_init(region_id, base_date, hash_key) ==
    RegionSimulator_init_from(get_config(region_id), region_id, base_date, hash_key)

(***************************************************************************)
(* State machine                                                           *)
(***************************************************************************)

VARIABLES
    sim,        \* sim[i]: the RegionSimulator object i, Unborn before construction
    hkey,       \* hkey[i]: the string-hash key of the process that built object i (-1: none)
    out,        \* out[i]: what the last call on object i returned (or raised)
    first,      \* first[i][n]: Some(what the first generate_series(n) on object i returned)
    firstStub,  \* firstStub[i][n]: the same with the headline generator stubbed
    calls,      \* number of generate_day / generate_series calls made so far
    log,        \* log[i]: the calls completed on object i by the interleaved callers
    ev,         \* the last evaluation of the divergence / alert functions
    registry,   \* the dictionary REGION_CONFIGS of the process, shared by all objects
    pc,         \* pc[i]: where the call in flight on object i stands
    alone       \* alone[i]: object i and its last result had its calls been made on it alone

vars == << sim, hkey, out, first, firstStub, calls, log, ev, registry, pc, alone >>

Sims == {1, 2}

\* bounds of the environment
MaxCalls == 2
MaxHashKey == 1
MaxPairKey == 5

Regions == {"shanghai", "atlantis"}
Dates == {738900, 738905}
DayOffsets == {0, 12, 29}
SeriesLens == {-1, 0, 3, 30}

\* the simulator object that is not constructed yet
Unborn == [region_id |-> None]

NoSeries == [n \in SeriesLens |-> Nothing]

\* no call is in flight on the object
NoCall == [at |-> "idle"]

SimInit ==
    /\ sim = [i \in Sims |-> Unborn]
    /\ hkey = [i \in Sims |-> -1]
    /\ out = [i \in Sims |-> [op |-> "none"]]
    /\ first = [i \in Sims |-> NoSeries]
    /\ firstStub = [i \in Sims |-> NoSeries]
    /\ calls = 0
    /\ log = [i \in Sims |-> << >>]
    /\ registry = REGION_CONFIGS
    /\ pc = [i \in Sims |-> NoCall]
    /\ alone = [i \in Sims |-> [self |-> Unborn, out |-> [op |-> "none"]]]

Init ==
    /\ SimInit
    /\ ev = [op |-> "none"]

\* RegionSimulator(region_id, base_date) in a process with key hash_key
Construct(i, region_id, base_date, hash_key) ==
    /\ sim[i] = Unborn
    /\ sim' = [sim EXCEPT ![i] = RegionSimulator_init(region_id, base_date, hash_key)]
    /\ hkey' = [hkey EXCEPT ![i] = hash_key]
    /\ UNCHANGED << registry, pc, alone, out, first, firstStub, calls, log, ev >>

\* RegionSimulator(region_id, base_date) by a caller that registered its
\* own profile under region_id first
ConstructRegistered(i, region_id, base_date, hash_key) ==
    /\ sim[i] = Unborn
    /\ sim' = [sim EXCEPT ![i] = RegionSimulator_init_from(CallerProfiles[region_id],
                                                          region_id, base_date, hash_key)]
    /\ hkey' = [hkey EXCEPT ![i] = hash_key]
    /\ UNCHANGED << registry, pc, alone, out, first, firstStub, calls, log, ev >>

\* what a call returned (or raised), as kept in out
Outcome(op, arg, r, field) ==
    IF r.error # None
    THEN [op |-> op, arg |-> arg, error |-> r.error]
    ELSE [op |-> op, arg |-> arg, error |-> None, value |-> r[field]]

\* the first result of a call with argument n
Remember(memo, i, n, r) ==
    IF r.error = None /\ memo[i][n] = Nothing
    THEN [memo EXCEPT ![i][n] = Some(r.series)]
    ELSE memo

\* generate_day drawing from one generator shared by all objects (as the
\* random module's functions would): the call advances the others' generator
DayCallSharedGenerator(i, d, r) ==
    /\ sim' = [j \in Sims |->
                 IF j = i THEN r.self
                 ELSE IF sim[j] = Unborn THEN sim[j]
                 ELSE [sim[j] EXCEPT !.rng = r.self.rng]]
    /\ out' = [out EXCEPT ![i] = Outcome("generate_day", d, r, "day")]

DayCall(i, d, r) ==
    /\ sim' = [sim EXCEPT ![i] = r.self]
    /\ out' = [out EXCEPT ![i] = Outcome("generate_day", d, r, "day")]

\* sim[i].generate_day(d)
GenerateDay(i, d) ==
    /\ sim[i] # Unborn
    /\ calls < MaxCalls
    /\ DayCall(i, d, generate_day(sim[i], d, "real"))
    /\ calls' = calls + 1
    /\ UNCHANGED << registry, pc, alone, hkey, first, firstStub, log, ev >>

SeriesCall(i, n, r) ==
    /\ sim' = [sim EXCEPT ![i] = r.self]
    /\ out' = [out EXCEPT ![i] = Outcome("generate_series", n, r, "series")]
    /\ first' = Remember(first, i, n, r)

\* sim[i].generate_series(n)
GenerateSeries(i, n) ==
    /\ sim[i] # Unborn
    /\ calls < MaxCalls
    /\ SeriesCall(i, n, generate_series(sim[i], n, "real"))
    /\ calls' = calls + 1
    /\ UNCHANGED << registry, pc, alone, hkey, firstStub, log, ev >>

StubbedCall(i, n, r) ==
    /\ sim' = [sim EXCEPT ![i] = r.self]
    /\ out' = [out EXCEPT ![i] = Outcome("generate_series_stubbed", n, r, "series")]
    /\ firstStub' = Remember(firstStub, i, n, r)

\* sim[i].generate_series(n) while HeadlineGenerator.generate is replaced
\* by the test double
GenerateSeriesStubbed(i, n) ==
    /\ sim[i] # Unborn
    /\ calls < MaxCalls
    /\ StubbedCall(i, n, generate_series(sim[i], n, "stub"))
    /\ calls' = calls + 1
    /\ UNCHANGED << registry, pc, alone, hkey, first, log, ev >>

FailingCall(i, d, r) ==
    /\ sim' = [sim EXCEPT ![i] = r.self]
    /\ out' = [out EXCEPT ![i] = Outcome("generate_day_headlines_raise", d, r, "day")]

\* sim[i].generate_day(d) while the headline collaborator raises
GenerateDayHeadlinesRaise(i, d) ==
    /\ sim[i] # Unborn
    /\ calls < MaxCalls
    /\ FailingCall(i, d, generate_day(sim[i], d, "raise"))
    /\ calls' = calls + 1
    /\ UNCHANGED << registry, pc, alone, hkey, first, firstStub, log, ev >>

\* one simulator object and its callers
Next ==
    \/ \E region_id \in Regions, base_date \in Dates, hash_key \in 0..MaxHashKey :
          Construct(1, region_id, base_date, hash_key)
    \/ \E region_id \in DOMAIN CallerProfiles, base_date \in Dates, hash_key \in 0..MaxHashKey :
          ConstructRegistered(1, region_id, base_date, hash_key)
    \/ \E d \in DayOffsets : GenerateDay(1, d)
    \/ \E n \in SeriesLens : GenerateSeries(1, n)
    \/ \E n \in SeriesLens : GenerateSeriesStubbed(1, n)
    \/ \E d \in DayOffsets : GenerateDayHeadlinesRaise(1, d)

Spec == Init /\ [][Next]_vars

\* Two objects of one process, each with a caller of its own.  The callers
\* run at the same time: a call is made of steps, one for each method the
\* call invokes on the object, and the steps of the two callers interleave
\* in any order.  An object holds its profile by reference: self.config is
\* the RegionConfig object that the dictionary REGION_CONFIGS of the process
\* holds, so every step reads the profile in the dictionary as it is then.
MaxInterleaved == 3
InterleavedRegions == {"shanghai", "suez"}
InterleavedDates == {738900}
InterleavedOffsets == {0, 12}
InterleavedLens == {0, 3}

\* config.py get_config on the dictionary as it is
ConfigIn(configs, region_id) ==
    IF region_id \in DOMAIN configs THEN configs[region_id] ELSE configs["shanghai"]

\* object i with self.config followed into the dictionary
Bound(i) == [sim[i] EXCEPT !.config = ConfigIn(registry, sim[i].region_id)]

\* pc after a step of the caller of object i that leaves its call at p: the
\* step fell inside whatever call is in flight on another object
Stepped(i, p) ==
    [j \in Sims |-> IF j = i THEN p
                    ELSE IF pc[j].at = "idle" THEN pc[j]
                    ELSE [pc[j] EXCEPT !.overlapped = TRUE]]

\* a call in flight on an object: the method and its argument, the day
\* being generated, what _generate_satellite returned for it, the records
\* of the days before it, and whether a step of another caller fell inside
InFlight(at, method, arg, day, sat, series, overlapped) ==
    [at |-> at, method |-> method, arg |-> arg, day |-> day, sat |-> sat,
     series |-> series, overlapped |-> overlapped]

\* the completed call added to those of object i
Completed(i, method, arg) ==
    [log EXCEPT ![i] = Append(@, [method |-> method, arg |-> arg,
                                  overlapped |-> pc[i].overlapped])]

\* RegionSimulator(region_id, base_date), by one of the interleaved callers
InterleavedConstruct(i, region_id, base_date) ==
    /\ sim[i] = Unborn
    /\ sim' = [sim EXCEPT ![i] = RegionSimulator_init_from(ConfigIn(registry, region_id),
                                                          region_id, base_date, 0)]
    /\ hkey' = [hkey EXCEPT ![i] = 0]
    /\ alone' = [alone EXCEPT ![i] = [self |-> RegionSimulator_init(region_id, base_date, 0),
                                      out |-> [op |-> "none"]]]
    /\ pc' = Stepped(i, pc[i])
    /\ UNCHANGED << registry, out, first, firstStub, calls, log, ev >>

\* the same call made on the object that no other caller runs beside
AloneDay(i, d, r) ==
    [alone EXCEPT ![i] = [self |-> r.self, out |-> Outcome("generate_day", d, r, "day")]]

AloneSeries(i, n, r) ==
    [alone EXCEPT ![i] = [self |-> r.self, out |-> Outcome("generate_series", n, r, "series")]]

\* sim[i].generate_day(d) is entered (engine.py 498-500)
BeginDay(i, d) ==
    /\ sim[i] # Unborn /\ pc[i].at = "idle"
    /\ calls < MaxInterleaved
    /\ pc' = Stepped(i, InFlight("satellite", "generate_day", d, d, None, << >>, FALSE))
    /\ alone' = AloneDay(i, d, generate_day(alone[i].self, d, "real"))
    /\ calls' = calls + 1
    /\ UNCHANGED << registry, sim, hkey, out, first, firstStub, log, ev >>

\* sim[i].generate_series(n) is entered and resets the object (engine.py
\* 524-529); an empty range returns at once
BeginSeries(i, n) ==
    /\ sim[i] # Unborn /\ pc[i].at = "idle"
    /\ calls < MaxInterleaved
    /\ alone' = AloneSeries(i, n, generate_series(alone[i].self, n, "real"))
    /\ calls' = calls + 1
    /\ IF n <= 0
       THEN /\ SeriesCall(i, n, SeriesStart(ResetForSeries(Bound(i))))
            /\ pc' = Stepped(i, NoCall)
            /\ log' = [log EXCEPT ![i] = Append(@, [method |-> "generate_series", arg |-> n,
                                                    overlapped |-> FALSE])]
       ELSE /\ sim' = [sim EXCEPT ![i] = ResetForSeries(Bound(i))]
            /\ pc' = Stepped(i, InFlight("satellite", "generate_series", n, 0, None,
                                         << >>, FALSE))
            /\ UNCHANGED << out, first, log >>
    /\ UNCHANGED << registry, hkey, firstStub, ev >>

\* the call on object i ends with the error that escaped
Raised(i, self, error) ==
    /\ IF pc[i].method = "generate_day"
       THEN /\ DayCall(i, pc[i].arg, [self |-> self, error |-> error])
            /\ UNCHANGED first
       ELSE SeriesCall(i, pc[i].arg, [self |-> self, error |-> error])
    /\ pc' = Stepped(i, NoCall)
    /\ log' = Completed(i, pc[i].method, pc[i].arg)

\* the _generate_satellite of the day in flight on object i (engine.py 502)
SatelliteStep(i) ==
    /\ sim[i] # Unborn /\ pc[i].at = "satellite"
    /\ \E sat \in {generate_satellite(Bound(i), pc[i].day,
                                       sim[i].base_date - (29 - pc[i].day))} :
          IF sat.error # None THEN Raised(i, sat.self, sat.error)
          ELSE /\ sim' = [sim EXCEPT ![i] = sat.self]
               /\ pc' = Stepped(i, [pc[i] EXCEPT !.at = "news", !.sat = sat])
               /\ UNCHANGED << out, first, log >>
    /\ UNCHANGED << registry, hkey, firstStub, calls, ev, alone >>

\* generate_series after the record of the day in flight was appended: the
\* next day of the range, or the list is returned
SeriesNext(i, st) ==
    IF st.error = None /\ pc[i].day + 1 < pc[i].arg
    THEN /\ sim' = [sim EXCEPT ![i] = st.self]
         /\ pc' = Stepped(i, [pc[i] EXCEPT !.at = "satellite", !.day = @ + 1, !.sat = None,
                                          !.series = st.series])
         /\ UNCHANGED << out, first, log >>
    ELSE /\ SeriesCall(i, pc[i].arg, st)
         /\ pc' = Stepped(i, NoCall)
         /\ log' = Completed(i, pc[i].method, pc[i].arg)

\* the rest of the generate_day in flight on object i: _generate_news,
\* _compute_divergence and the record (engine.py 503-522)
NewsStep(i) ==
    /\ sim[i] # Unborn /\ pc[i].at = "news"
    /\ \E r \in {DayAfterNews(Bound(i), pc[i].day, sim[i].base_date - (29 - pc[i].day),
                               pc[i].sat,
                               generate_news(Bound(i), pc[i].day,
                                             sim[i].base_date - (29 - pc[i].day),
                                             pc[i].sat.score, "real"))} :
          IF pc[i].method = "generate_day"
          THEN /\ DayCall(i, pc[i].arg, r)
               /\ pc' = Stepped(i, NoCall)
               /\ log' = Completed(i, pc[i].method, pc[i].arg)
               /\ UNCHANGED first
          ELSE SeriesNext(i, SeriesDay([series |-> pc[i].series], r))
    /\ UNCHANGED << registry, hkey, firstStub, calls, ev, alone >>

NextInterleaved ==
    \/ \E i \in Sims, region_id \in InterleavedRegions, base_date \in InterleavedDates :
          InterleavedConstruct(i, region_id, base_date)
    \/ \E i \in Sims, d \in InterleavedOffsets : BeginDay(i, d)
    \/ \E i \in Sims, n \in InterleavedLens : BeginSeries(i, n)
    \/ \E i \in Sims : SatelliteStep(i)
    \/ \E i \in Sims : NewsStep(i)

SpecInterleaved == Init /\ [][NextInterleaved]_vars

\* two constructions, each in a process of its own or in the same one
NextPair ==
    \E i \in Sims, region_id \in DOMAIN RegionCode, base_date \in Dates, hash_key \in 0..MaxPairKey :
        Construct(i, region_id, base_date, hash_key)

SpecPair == Init /\ [][NextPair]_vars

(***************************************************************************)
(* The scheduler on its own: every seed of the seed space, every profile.  *)
(***************************************************************************)

\* self._generate_regimes() on a generator seeded with seed
Scheduled(region_id, seed, g) ==
    ev' = [op |-> "generate_regimes", region_id |-> region_id, seed |-> seed,
           regimes |-> g.regimes, n_regimes |-> g.n_regimes, passes |-> g.passes]

Schedule(region_id, seed) ==
    /\ Scheduled(region_id, seed, generate_regimes(get_config(region_id), Random(seed)))
    /\ UNCHANGED << registry, pc, alone, sim, hkey, out, first, firstStub, calls, log >>

\* nothing was evaluated yet
Idle == ev.op = "none"

\* the schedule drawn for a profile a caller registered
ScheduleRegistered(region_id, seed) ==
    /\ Scheduled(region_id, seed, generate_regimes(CallerProfiles[region_id], Random(seed)))
    /\ UNCHANGED << registry, pc, alone, sim, hkey, out, first, firstStub, calls, log >>

NextSched ==
    \/ /\ Idle
       /\ \E region_id \in DOMAIN REGION_CONFIGS, seed \in 0..(SeedSpace - 1) :
             Schedule(region_id, seed)
    \/ /\ Idle
       /\ \E region_id \in DOMAIN CallerProfiles, seed \in 0..(SeedSpace - 1) :
             ScheduleRegistered(region_id, seed)

SpecSched == Init /\ [][NextSched]_vars

(***************************************************************************)
(* The fusion functions on their own: divergence formulas and alert        *)
(* generators applied to inputs of a grid.                                 *)
(***************************************************************************)

\* 0.40, 0.70 and 1.00 are of equal hundredths apart while the doubles of
\* their differences are not equal
Scores == {-100, -40, 0, 30, 40, 100}
MarketScores == {Nothing, Some(-100), Some(0), Some(70), Some(100)}
SatConfidences == {0, 50, 100}
NewsConfidences == {0, 100}
Hypes == {0, 50, 100}
\* divergence values around the thresholds of the three alert generators
Divergences == {0, 30, 35, 50, 51, 55, 60, 75, 76, 100}
AlertHypes == {0, 51, 60, 70, 71, 100}
Volumes == {0, 4, 5, 120}
DataSources == {"GEE", "UNAVAILABLE"}

\* the four divergence functions on one (sat, news) pair
Divergence4(sat_score, news_score, market_score, sat_conf, news_conf, hype) ==
    [region |-> RegionSimulator_compute_divergence(sat_score, news_score, sat_conf, news_conf, hype),
     signal |-> SignalAnalyzer_compute_divergence(sat_score, news_score, sat_conf, news_conf, hype),
     analyzer |-> DivergenceAnalyzer_compute_divergence(sat_score, news_score, sat_conf, hype),
     main |-> compute_divergence(sat_score, news_score, market_score, sat_conf, news_conf, hype),
     market_factor |-> market_factor10(sat_score, news_score, market_score)]

\* the divergence functions applied to two (sat, news) pairs with the
\* other arguments shared
EvalDivergence(s1, n1, s2, n2, market_score, sat_conf, news_conf, hype) ==
    /\ ev' = [op |-> "compute_divergence",
              s1 |-> s1, n1 |-> n1, s2 |-> s2, n2 |-> n2,
              market_score |-> market_score,
              sat_conf |-> sat_conf, news_conf |-> news_conf, hype |-> hype,
              d1 |-> Divergence4(s1, n1, market_score, sat_conf, news_conf, hype),
              d2 |-> Divergence4(s2, n2, market_score, sat_conf, news_conf, hype)]
    /\ UNCHANGED << registry, pc, alone, sim, hkey, out, first, firstStub, calls, log >>

\* the three alert generators applied to one reading
EvalAlerts(sat_score, news_score, market_score, divergence, hype, volume, sat_source) ==
    /\ ev' = [op |-> "generate_alerts",
              sat_score |-> sat_score, news_score |-> news_score,
              market_score |-> market_score, divergence |-> divergence,
              hype |-> hype, volume |-> volume, sat_source |-> sat_source,
              analyzer |-> DivergenceAnalyzer_generate_alerts(
                               Centi(sat_score), Centi(news_score), Whole(divergence),
                               Whole(hype)),
              signal |-> SignalAnalyzer_generate_alerts(
                               sat_score, news_score, divergence * DivUnit, hype, sat_source),
              main |-> generate_alerts(
                               sat_score, news_score, market_score, divergence * DivUnit,
                               [data_source |-> sat_source],
                               [headline_volume |-> volume, hype_intensity |-> hype])]
    /\ UNCHANGED << registry, pc, alone, sim, hkey, out, first, firstStub, calls, log >>

\* Readings handed to DivergenceAnalyzer as sat.score / news.score
\* (hundredths), sat.confidence (hundredths) and news.hype_intensity (whole
\* points).  They are inputs chosen here, not values of the repository's
\* data: the two scenarios of the documentation (physical -0.55, narrative
\* +0.85, confidence 0.9, hype 88; physical +0.62, narrative -0.82,
\* confidence 0.88, hype 72), neighbours of them, and a reading (-0.98,
\* -0.34, confidence 0.75, hype 50) whose exact divergence is 30 while the
\* double the code computes is 29.999999999999993.
AnalyzerScores == {-98, -82, -55, -34, 0, 62, 85}
AnalyzerConfidences == {50, 75, 88, 90}
AnalyzerHypes == {0, 50, 72, 88}

\* DivergenceAnalyzer(sat, news) constructed on one pair of signals
EvalAnalyzer(sat_score, news_score, sat_confidence, hype) ==
    /\ ev' = [op |-> "DivergenceAnalyzer",
              sat_score |-> sat_score, news_score |-> news_score,
              sat_confidence |-> sat_confidence, hype |-> hype,
              analyzer |-> DivergenceAnalyzer_init(
                  [score |-> Centi(sat_score), confidence |-> Centi(sat_confidence)],
                  [score |-> Centi(news_score), hype_intensity |-> Whole(hype)])]
    /\ UNCHANGED << registry, pc, alone, sim, hkey, out, first, firstStub, calls, log >>

\* The whole number nearest to p / 2^k, halves to the even one (p a natural
\* number in limbs, k > 0).
BRoundShift(p, k) ==
    IF BBit(p, k - 1) = 1 /\ (~BLowZero(p, k - 1) \/ BBit(p, k) = 1)
    THEN BToInt(BShr(p, k)) + 1
    ELSE BToInt(BShr(p, k))

\* round(x, 3) of Python for a double x, abs(x) <= 1: the exact value of x
\* is rounded to whole thousandths, halves to the even one, and the result
\* is the double nearest to that decimal
round3(x) ==
    IF x.m = << >> THEN FZero
    ELSE IF x.e >= 0 THEN x
    ELSE FOfRatio((IF x.neg THEN -1 ELSE 1) * BRoundShift(BMul(x.m, BOfInt(1000)), -x.e),
                  1000)

\* Python truthiness of an optional float: None and 0.0 are false
Truthy(x) == x # Nothing /\ x[1] # FZero

\* services/news.py NewsService.__init__ without NEWS_API_KEY
NewsService_init == [error |-> "ValueError"]

\* main.py get_signals, the market part (lines 459-475, 495-499, 522-579):
\* market_signal is Nothing (no market service, or fetch_market_signal
\* returned None) or Some(signal) with the double signal_strength;
\* news_service tells whether the news service was constructed at startup.
\* When it was not, get_signals constructs a NewsService itself, which
\* raises again.  used is the market_score handed to compute_divergence,
\* generate_alerts and generate_explanation; market_score and market_data
\* are the fields of the response.
get_signals(market_signal, news_service) ==
    LET market_score == IF market_signal # Nothing
                        THEN Some(market_signal[1].signal_strength)
                        ELSE Nothing
    IN  IF ~news_service
        THEN [error |-> NewsService_init.error, used |-> Nothing,
              market_score |-> Nothing, market_data |-> Nothing]
        ELSE [error |-> None,
              used |-> market_score,
              market_score |-> IF Truthy(market_score) THEN Some(round3(market_score[1]))
                               ELSE Nothing,
              market_data |-> IF market_signal # Nothing
                              THEN Some([signal_strength |-> market_signal[1].signal_strength])
                              ELSE Nothing]

\* services/market.py fetch_market_signal: the strength of a one-week change
\* of change_1w percent, change_1w given in ten-thousandths of a percent,
\*   signal = max(-1, min(1, change_1w / 10)) ; round(signal, 3)
\* (the change is taken as the double of its decimal)
signal_strength_of(change_1w) ==
    round3(FMax[Whole(-1), FMin[Whole(1),
                FDiv[FDiv[FOfInt(change_1w), FOfInt(10000)], Whole(10)]]])

\* one-week changes, in ten-thousandths of a percent
WeekChanges == {-250000, -100000, -12344, -45, -4, 0, 4, 55, 6250, 12356, 50000, 100000, 123456}

\* what fetch_market_signal can return: nothing, or a signal whose strength
\* is a rounded double in [-1, 1]
MarketSignals ==
    {Nothing} \cup {Some([signal_strength |-> signal_strength_of(c)]) : c \in WeekChanges}

\* GET /signals with the market service answering market_signal
EvalSignals(market_signal, news_service) ==
    /\ ev' = [op |-> "get_signals", market_signal |-> market_signal,
              news_service |-> news_service,
              response |-> get_signals(market_signal, news_service)]
    /\ UNCHANGED << registry, pc, alone, sim, hkey, out, first, firstStub, calls, log >>

\* sentiments in [-1, 1] and diversities in [0, 1], in hundredths
Sentiments == {-100, -40, -1, 0, 1, 40, 100}
Diversities == {0, 20, 50, 95, 100}

\* the four narrative normalizers applied to one sentiment and diversity
EvalNormalize(sentiment, diversity) ==
    /\ ev' = [op |-> "normalize_news_score",
              sentiment |-> sentiment, diversity |-> diversity,
              simulator |-> RegionSimulator_adjusted_score(sentiment, diversity),
              news_signal |-> NewsSignal_compute_score(sentiment, diversity),
              signal_analyzer |-> SignalAnalyzer_normalize_news_score(sentiment, diversity),
              main |-> normalize_news_score(sentiment, diversity)]
    /\ UNCHANGED << registry, pc, alone, sim, hkey, out, first, firstStub, calls, log >>

\* RegionSimulator._compute_divergence on one pair of scores under two
\* weightings w1, w2 (sat_confidence, news_confidence, hype_intensity), and
\* under w1 with the hype taken away
Weightings == [sat_confidence : SatConfidences, news_confidence : SatConfidences, hype_intensity : Hypes]

Weighted(sat_score, news_score, w) ==
    RegionSimulator_compute_divergence(sat_score, news_score,
        w.sat_confidence, w.news_confidence, w.hype_intensity)

EvalWeighting(sat_score, news_score, w1, w2) ==
    /\ ev' = [op |-> "_compute_divergence",
              sat_score |-> sat_score, news_score |-> news_score,
              w1 |-> w1, w2 |-> w2,
              d1 |-> Weighted(sat_score, news_score, w1),
              d2 |-> Weighted(sat_score, news_score, w2),
              unhyped1 |-> Weighted(sat_score, news_score, [w1 EXCEPT !.hype_intensity = 0])]
    /\ UNCHANGED << registry, pc, alone, sim, hkey, out, first, firstStub, calls, log >>

\* state scalars (hundredths, handed over as doubles), among them values
\* outside [-1, 1] that the unclamped _sat_state of an extreme profile
\* takes; the durations and intensities (hundredths) of a MEAN_REVERSION
\* regime
ReversionStates == {-300, -100, -50, -1, 0, 1, 50, 100, 300}
ReversionDurations == 6..10
ReversionIntensities == {50, 77, 100}
ReversionStarts == {5, 20}

\* _regime_satellite_effect and _regime_news_effect on each day of a
\* MEAN_REVERSION regime, for an object whose two state scalars are state
ReversionOf(self, regime) ==
    [k \in 1..regime.duration |->
        [progress |-> progress(regime, regime.start_day + k - 1),
         sat_effect |-> regime_satellite_effect(self, regime,
                            progress(regime, regime.start_day + k - 1)),
         sentiment_mod |-> regime_sentiment_mod(self.news_state, regime,
                               progress(regime, regime.start_day + k - 1))]]

EvalReversion(state, start_day, duration, intensity) ==
    /\ ev' = [op |-> "mean_reversion", state |-> state,
              start_day |-> start_day, duration |-> duration, intensity |-> intensity,
              days |-> ReversionOf([sat_state |-> Centi(state), news_state |-> Centi(state)],
                                   [type |-> "MEAN_REVERSION", start_day |-> start_day,
                                    duration |-> duration, intensity |-> Centi(intensity)])]
    /\ UNCHANGED << registry, pc, alone, sim, hkey, out, first, firstStub, calls, log >>

NextDiv ==
    \/ /\ Idle
       /\ \E s1 \in Scores, n1 \in Scores, s2 \in Scores, n2 \in Scores,
          market_score \in MarketScores, sat_conf \in SatConfidences,
          news_conf \in NewsConfidences, hype \in Hypes :
            EvalDivergence(s1, n1, s2, n2, market_score, sat_conf, news_conf, hype)
    \/ /\ Idle
       /\ \E sat_score \in Scores, news_score \in Scores, market_score \in MarketScores,
          divergence \in Divergences, hype \in AlertHypes, volume \in Volumes,
          sat_source \in DataSources :
            EvalAlerts(sat_score, news_score, market_score, divergence, hype, volume, sat_source)
    \/ /\ Idle
       /\ \E sat_score \in AnalyzerScores, news_score \in AnalyzerScores,
          sat_confidence \in AnalyzerConfidences, hype \in AnalyzerHypes :
            EvalAnalyzer(sat_score, news_score, sat_confidence, hype)
    \/ /\ Idle
       /\ \E sentiment \in Sentiments, diversity \in Diversities :
            EvalNormalize(sentiment, diversity)
    \/ /\ Idle
       /\ \E sat_score \in Scores, news_score \in Scores, w1 \in Weightings, w2 \in Weightings :
            EvalWeighting(sat_score, news_score, w1, w2)
    \/ /\ Idle
       /\ \E state \in ReversionStates, start_day \in ReversionStarts,
          duration \in ReversionDurations, intensity \in ReversionIntensities :
            EvalReversion(state, start_day, duration, intensity)
    \/ /\ Idle
       /\ \E market_signal \in MarketSignals, news_service \in BOOLEAN :
            EvalSignals(market_signal, news_service)

SpecDiv == Init /\ [][NextDiv]_vars

(***************************************************************************)
(* Properties                                                              *)
(***************************************************************************)

\* the day offsets looked at, beyond the window on both sides
ScheduleDays == (-2)..40

\* the numeric ranges of a day record
DayInRange(day) ==
    /\ FLeq[Whole(-1), day.satellite_score] /\ FLeq[day.satellite_score, Whole(1)]
    /\ FLeq[Whole(-1), day.news_score] /\ FLeq[day.news_score, Whole(1)]
    /\ FLeq[Whole(0), day.divergence_score] /\ FLeq[day.divergence_score, Whole(100)]

\* a day record without its headline text
NumericFields(day) == [day EXCEPT !.news_raw.top_headlines = << >>]

NumericTrace(series) == [k \in 1..Len(series) |-> NumericFields(series[k])]

\* the gaps |sat - news| of the two pairs of an evaluation
Gap1 == Abs(ev.s1 - ev.n1)
Gap2 == Abs(ev.s2 - ev.n2)

\* C1: in every schedule produced by _generate_regimes, at most one regime
\* covers a day offset, and _get_active_regime(d) is none when no regime
\* covers d and the one covering regime otherwise.
C1_RegimesDoNotOverlap ==
    ev.op = "generate_regimes" =>
        \A d \in ScheduleDays :
            LET covering == {k \in 1..Len(ev.regimes) : is_active(ev.regimes[k], d)}
            IN  /\ Cardinality(covering) <= 1
                /\ covering = {} => get_active_regime(ev.regimes, d) = NoRegime
                /\ \A k \in covering : get_active_regime(ev.regimes, d) = ev.regimes[k]

\* a schedule of two regimes whose first regime reaches into the range of
\* starts of the second (day 18 on), so that a drawn start can collide
C1_Witness ==
    /\ ev.op = "generate_regimes"
    /\ Len(ev.regimes) = 2
    /\ ev.regimes[1].start_day + ev.regimes[1].duration > 18
    /\ ev.regimes[2].start_day >= ev.regimes[1].start_day + ev.regimes[1].duration

\* C2: a generate_series(n) call on an object returns the same sequence
\* as the first generate_series(n) call on it did, and the same as a
\* freshly constructed object returns, whatever calls preceded it.
C2_SeriesRestartable ==
    \A i \in Sims :
        (out[i].op = "generate_series" /\ out[i].error = None) =>
            /\ first[i][out[i].arg] # Nothing
            /\ out[i].value = first[i][out[i].arg][1]
            /\ out[i].value =
                 generate_series(
                     RegionSimulator_init_from(sim[i].config, sim[i].region_id,
                                               sim[i].base_date, hkey[i]),
                     out[i].arg, "real").series

\* a 30-day series returned by the second call on the object, the first
\* call having advanced the generator and the state scalars
C2_Witness ==
    /\ calls = 2
    /\ out[1].op = "generate_series"
    /\ out[1].error = None
    /\ out[1].arg = 30
    /\ Len(out[1].value) = 30
    /\ first[1][3] = Nothing

\* C3: in every day record returned by generate_day or generate_series,
\* for every profile, satellite_score and news_score lie in [-1, 1] and
\* divergence_score lies in [0, 100].
C3_ScoresInRange ==
    \A i \in Sims :
        /\ (out[i].op = "generate_day" /\ out[i].error = None) => DayInRange(out[i].value)
        /\ (out[i].op \in {"generate_series", "generate_series_stubbed"} /\ out[i].error = None) =>
              \A k \in 1..Len(out[i].value) : DayInRange(out[i].value[k])

\* a day of the extreme profile, returned by generate_day or inside a
\* series, whose satellite score sits on the bound and whose divergence
\* sits on the cap
C3_Witness ==
    /\ sim[1].region_id = "stress"
    /\ out[1].op \in {"generate_day", "generate_series"}
    /\ out[1].error = None
    /\ \/ /\ out[1].op = "generate_day"
          /\ FAbs[out[1].value.satellite_score] = Whole(1)
          /\ out[1].value.divergence_score = Whole(100)
       \/ /\ out[1].op = "generate_series"
          /\ \E k \in 1..Len(out[1].value) :
                /\ FAbs[out[1].value[k].satellite_score] = Whole(1)
                /\ out[1].value[k].divergence_score = Whole(100)

\* C4: for fixed confidences and hype, each two-channel divergence
\* (RegionSimulator, SignalAnalyzer, DivergenceAnalyzer) of a pair with the
\* smaller gap |sat - news| is at most that of a pair with the larger gap.
C4_GapMonotone ==
    (ev.op = "compute_divergence" /\ Gap1 <= Gap2) =>
        /\ ev.d1.region <= ev.d2.region
        /\ ev.d1.signal <= ev.d2.signal
        /\ ev.d1.analyzer <= ev.d2.analyzer

\* two pairs with different positive gaps, the larger one saturating the
\* cap of 100 and the smaller one not
C4_Witness ==
    /\ ev.op = "compute_divergence"
    /\ 0 < Gap1 /\ Gap1 < Gap2
    /\ ev.d1.region < 100 * DivUnit
    /\ ev.d2.region = 100 * DivUnit
    /\ ev.d1.analyzer < ev.d2.analyzer

\* C5: when the satellite score equals the news score, every divergence
\* function returns 0, for any confidences, hype and market score.
C5_ZeroGapZeroDivergence ==
    (ev.op = "compute_divergence" /\ ev.s1 = ev.n1) =>
        /\ ev.d1.region = 0
        /\ ev.d1.signal = 0
        /\ ev.d1.analyzer = 0
        /\ ev.d1.main = 0

\* equal non-zero scores with full confidences, full hype and a market
\* score that differs from them
C5_Witness ==
    /\ ev.op = "compute_divergence"
    /\ ev.s1 = ev.n1 /\ ev.s1 # 0
    /\ ev.sat_conf = 100 /\ ev.news_conf = 100 /\ ev.hype = 100
    /\ ev.market_score # Nothing
    /\ ev.market_score # Some(ev.s1)
    /\ ev.d1.main = 0

\* C6: each alert generator returns at least one alert.
C6_AlertsNeverEmpty ==
    ev.op = "generate_alerts" =>
        /\ Len(ev.analyzer) >= 1
        /\ Len(ev.signal) >= 1
        /\ Len(ev.main) >= 1

\* a reading for which no rule of main.generate_alerts fires and the
\* fallback supplies the alert
C6_Witness ==
    /\ ev.op = "generate_alerts"
    /\ ev.volume >= 5 /\ ev.divergence <= 50 /\ ev.hype <= 50
    /\ ev.main = << [level |-> "ok", category |-> "status",
                     title |-> "Signals aligned - monitoring active"] >>

\* C7: a series generated with HeadlineGenerator.generate replaced by a
\* stub that draws nothing has the same numeric fields as the series
\* generated with the real headline generator.
C7_HeadlinesDoNotFeedBack ==
    \A i \in Sims : \A n \in SeriesLens :
        (first[i][n] # Nothing /\ firstStub[i][n] # Nothing) =>
            NumericTrace(first[i][n][1]) = NumericTrace(firstStub[i][n][1])

\* C8: two constructions with the same region_id and base_date obtain the
\* same seed, also when they happen in different processes.
C8_SeedDeterministic ==
    (/\ sim[1] # Unborn /\ sim[2] # Unborn
     /\ sim[1].region_id = sim[2].region_id
     /\ sim[1].base_date = sim[2].base_date) =>
        /\ sim[1].seed = sim[2].seed
        /\ sim[1].regimes = sim[2].regimes

\* C9: every regime of a schedule lies in the 30-day window:
\* 0 <= start_day and start_day + duration <= 30.
C9_RegimesWithinWindow ==
    ev.op = "generate_regimes" =>
        \A k \in 1..Len(ev.regimes) :
            /\ 0 <= ev.regimes[k].start_day
            /\ ev.regimes[k].start_day + ev.regimes[k].duration <= 30

\* C10 as stated: with market_score, confidences and hype fixed,
\* main.compute_divergence of the pair with the smaller gap is at most
\* that of the pair with the larger gap.
C10_MarketGapMonotone ==
    (ev.op = "compute_divergence" /\ Gap1 <= Gap2) => ev.d1.main <= ev.d2.main

\* C10 amended: the same for two pairs to which compute_divergence applies
\* the same market factor (always so when no market score is supplied).
C10_GapMonotoneAtEqualMarketFactor ==
    (/\ ev.op = "compute_divergence"
     /\ Gap1 <= Gap2
     /\ ev.d1.market_factor = ev.d2.market_factor) =>
        ev.d1.main <= ev.d2.main

\* two pairs with different gaps, both amplified as "news is the outlier"
C10_Witness ==
    /\ ev.op = "compute_divergence"
    /\ ev.market_score # Nothing
    /\ Gap1 < Gap2
    /\ ev.d1.market_factor = 12 /\ ev.d2.market_factor = 12
    /\ ev.d1.main < ev.d2.main

\* C11: _generate_regimes returns a schedule for every seed and profile:
\* each pass of its loop draws at most 20 start offsets, from a non-empty
\* range; a pass appends no regime only when all 20 offsets overlapped,
\* and the schedule holds one regime per pass that placed one.
C11_SearchBounded ==
    ev.op = "generate_regimes" =>
        /\ Len(ev.passes) = ev.n_regimes
        /\ \A i \in 1..Len(ev.passes) :
              /\ 1 <= ev.passes[i].tried /\ ev.passes[i].tried <= 20
              /\ (i > 1) => 18 <= 30 - ev.passes[i].duration
              /\ ~ev.passes[i].placed => ev.passes[i].tried = 20
        /\ Len(ev.regimes) = Cardinality({i \in 1..Len(ev.passes) : ev.passes[i].placed})

\* a schedule whose second regime was dropped after 20 overlapping starts
C11_Witness ==
    /\ ev.op = "generate_regimes"
    /\ ev.n_regimes = 2
    /\ ev.passes[2].tried = 20
    /\ ~ev.passes[2].placed
    /\ Len(ev.regimes) = 1

\* the generator draws of n days that generate no headlines: 4 uniform
\* draws and 7 normal deviates a day, the deviates produced in pairs
DrawsOfDays(n) == 4 * n + 2 * ((7 * n + 1) \div 2)

\* C12: generate_series(n), n >= 1, returns n records in order, the i-th
\* with day_offset i and the date of that offset; the generator has made
\* the draws of one satellite step and one news step per day (and no
\* others when no headlines are generated).
C12_OneRecordPerDay ==
    \A i \in Sims :
        (/\ out[i].op \in {"generate_series", "generate_series_stubbed"}
         /\ out[i].error = None
         /\ out[i].arg >= 1) =>
            /\ Len(out[i].value) = out[i].arg
            /\ \A k \in 1..Len(out[i].value) :
                  /\ out[i].value[k].day_offset = k - 1
                  /\ out[i].value[k].date = sim[i].base_date - (29 - (k - 1))
            /\ sim[i].rng.pos >= DrawsOfDays(out[i].arg)
            /\ out[i].op = "generate_series_stubbed" =>
                  sim[i].rng.pos = DrawsOfDays(out[i].arg)

\* a 3-day series: offsets 0, 1, 2
C12_Witness ==
    /\ out[1].op = "generate_series"
    /\ out[1].error = None
    /\ out[1].arg = 3
    /\ Len(out[1].value) = 3
    /\ out[1].value[3].day_offset = 2

\* C13: generate_series(n) with n <= 0 reports an error and generates no
\* day.
C13_NonPositiveRejected ==
    \A i \in Sims :
        (out[i].op = "generate_series" /\ out[i].arg <= 0) => out[i].error # None

\* C14: when the headline collaborator fails during generate_day, the day
\* record is still returned, with an empty headline list and the numeric
\* fields of the day generated with working headlines.
C14_HeadlineFailureTolerated ==
    \A i \in Sims :
        out[i].op = "generate_day_headlines_raise" =>
            /\ out[i].error = None
            /\ out[i].value.news_raw.top_headlines = << >>
            /\ DayInRange(out[i].value)

\* C15: generate_day completes without error for a profile with
\* sat_volatility = 0 or news_volume_baseline = 0.
C15_ZeroDenominatorsGuarded ==
    \A i \in Sims :
        (/\ out[i].op = "generate_day"
         /\ \/ sim[i].config.sat_volatility = 0
            \/ sim[i].config.news_volume_baseline = 0) =>
            /\ out[i].error = None
            /\ DayInRange(out[i].value)

\* the alerts of a list whose title is one of the given titles
AlertsTitled(alerts, titles) == SelectSeq(alerts, LAMBDA a : a.title \in titles)

\* the divergence alert titles of the three generators
AnalyzerDivergenceTitles == {"Hype Divergence Detected", "Panic Divergence Detected", "Extreme Magnitude Mismatch", "Elevated Divergence", "Minor Divergence", "Signals Aligned"}
SignalDivergenceTitles == {"Hype Divergence", "Panic Divergence", "High Divergence", "Elevated Divergence", "Signals Aligned"}
MainDivergenceTitles == {"HYPE DIVERGENCE", "PANIC DIVERGENCE", "Significant signal divergence", "Moderate divergence"}

\* at high divergence the list holds exactly one divergence alert, chosen by
\* priority hype, panic, other; below it no hype or panic alert
HighPriority(alerts, titles, at_high, hype_case, panic_case, hypeT, panicT, otherT) ==
    /\ at_high =>
        /\ Len(AlertsTitled(alerts, titles)) = 1
        /\ AlertsTitled(alerts, titles)[1].title =
               IF hype_case THEN hypeT ELSE IF panic_case THEN panicT ELSE otherT
    /\ ~at_high => AlertsTitled(alerts, {hypeT, panicT}) = << >>

\* C16: in each alert generator, at divergence at or above the high threshold
\* exactly one divergence alert is emitted, and it is the hype alert iff the
\* narrative score is above the neutral band and the physical score below it,
\* else the panic alert iff the narrative score is below the band and the
\* physical score above it, else the generic high-divergence alert; below the
\* high threshold no hype or panic alert is emitted.
C16_HighDivergencePriority ==
    ev.op = "generate_alerts" =>
        /\ HighPriority(ev.analyzer, AnalyzerDivergenceTitles,
                        ev.divergence >= THRESHOLD_HIGH,
                        ev.news_score > 10 /\ ev.sat_score < -10,
                        ev.news_score < -10 /\ ev.sat_score > 10,
                        "Hype Divergence Detected", "Panic Divergence Detected",
                        "Extreme Magnitude Mismatch")
        /\ HighPriority(ev.signal, SignalDivergenceTitles,
                        ev.divergence >= THRESHOLD_CRITICAL,
                        ev.news_score > 15 /\ ev.sat_score < -15,
                        ev.news_score < -15 /\ ev.sat_score > 15,
                        "Hype Divergence", "Panic Divergence", "High Divergence")
        /\ HighPriority(ev.main, MainDivergenceTitles,
                        ev.divergence >= 75,
                        ev.news_score > 20 /\ ev.sat_score < -10,
                        ev.news_score < -20 /\ ev.sat_score > 10,
                        "HYPE DIVERGENCE", "PANIC DIVERGENCE",
                        "Significant signal divergence")

\* the part of C16 that concerns the two analyzer classes alone
C16_AnalyzersHighDivergencePriority ==
    ev.op = "generate_alerts" =>
        /\ HighPriority(ev.analyzer, AnalyzerDivergenceTitles,
                        ev.divergence >= THRESHOLD_HIGH,
                        ev.news_score > 10 /\ ev.sat_score < -10,
                        ev.news_score < -10 /\ ev.sat_score > 10,
                        "Hype Divergence Detected", "Panic Divergence Detected",
                        "Extreme Magnitude Mismatch")
        /\ HighPriority(ev.signal, SignalDivergenceTitles,
                        ev.divergence >= THRESHOLD_CRITICAL,
                        ev.news_score > 15 /\ ev.sat_score < -15,
                        ev.news_score < -15 /\ ev.sat_score > 15,
                        "Hype Divergence", "Panic Divergence", "High Divergence")

\* the one divergence alert of a list is titled as given
DivergenceAlertIs(alerts, titles, title) ==
    /\ Len(AlertsTitled(alerts, titles)) = 1
    /\ AlertsTitled(alerts, titles)[1].title = title

\* C17: in DivergenceAnalyzer and SignalAnalyzer, below the medium threshold
\* (55, 35) the divergence alert is the informational 'signals aligned'
\* status, and from the medium threshold up to but excluding the high
\* threshold (75, 60) it is the 'elevated divergence' advisory.
C17_AlignedBelowMedium ==
    ev.op = "generate_alerts" =>
        /\ ev.divergence < THRESHOLD_MEDIUM =>
               /\ DivergenceAlertIs(ev.analyzer, AnalyzerDivergenceTitles, "Signals Aligned")
               /\ AlertsTitled(ev.analyzer, AnalyzerDivergenceTitles)[1].level = "info"
        /\ (ev.divergence >= THRESHOLD_MEDIUM /\ ev.divergence < THRESHOLD_HIGH) =>
               DivergenceAlertIs(ev.analyzer, AnalyzerDivergenceTitles, "Elevated Divergence")
        /\ ev.divergence < THRESHOLD_ELEVATED =>
               /\ DivergenceAlertIs(ev.signal, SignalDivergenceTitles, "Signals Aligned")
               /\ AlertsTitled(ev.signal, SignalDivergenceTitles)[1].level = "info"
        /\ (ev.divergence >= THRESHOLD_ELEVATED /\ ev.divergence < THRESHOLD_CRITICAL) =>
               DivergenceAlertIs(ev.signal, SignalDivergenceTitles, "Elevated Divergence")

\* C18: in every alert generator the high-hype alert is in the returned list
\* whenever hype intensity exceeds the generator's hype threshold, whatever
\* the divergence.
C18_HypeAdvisoryIndependent ==
    ev.op = "generate_alerts" =>
        /\ ev.hype > 70 => AlertsTitled(ev.analyzer, {"High Hype Intensity"}) # << >>
        /\ ev.hype > 60 => AlertsTitled(ev.signal, {"High Hype Detected"}) # << >>
        /\ ev.hype > 70 => AlertsTitled(ev.main, {"High narrative hype"}) # << >>

\* the part of C18 that concerns SignalAnalyzer and main.generate_alerts
C18_HypeAdvisoryIndependentOutsideAnalyzer ==
    ev.op = "generate_alerts" =>
        /\ ev.hype > 60 => AlertsTitled(ev.signal, {"High Hype Detected"}) # << >>
        /\ ev.hype > 70 => AlertsTitled(ev.main, {"High narrative hype"}) # << >>

\* the conditions under which main.generate_alerts raises an alert of the
\* data, divergence, hype and market categories, read from the inputs
DataTriggered == ev.volume < 5
DivergenceTriggered == ev.divergence > 50
HypeTriggered == ev.hype > 70
MarketTriggered ==
    /\ ev.market_score # Nothing
    /\ market_aligned(ev.sat_score, ev.market_score[1])
    /\ ~market_aligned(ev.news_score, ev.market_score[1])
    /\ ev.hype > 50

\* the alerts of a list with the given level
AlertsOfLevel(alerts, level) == SelectSeq(alerts, LAMBDA a : a.level = level)

\* C19: main.generate_alerts emits the 'ok' monitoring status alert iff no
\* data-quality, divergence, hype or market alert was triggered, and when it
\* is emitted it is the only alert of the list.
C19_OkIffNothingElse ==
    ev.op = "generate_alerts" =>
        /\ AlertsOfLevel(ev.main, "ok") # << >> <=>
               ~(DataTriggered \/ DivergenceTriggered \/ HypeTriggered \/ MarketTriggered)
        /\ AlertsOfLevel(ev.main, "ok") # << >> =>
               ev.main = << [level |-> "ok", category |-> "status",
                             title |-> "Signals aligned - monitoring active"] >>

\* an evaluation with a market score, at the largest divergence and hype that
\* trigger nothing, that returned the status alert
C19_Witness ==
    /\ ev.op = "generate_alerts"
    /\ AlertsOfLevel(ev.main, "ok") # << >>
    /\ ev.market_score # Nothing
    /\ ev.volume >= 5
    /\ ev.divergence = 50
    /\ ev.hype = 70

\* the reading of the hype scenario and of the panic scenario
HypeExample ==
    /\ ev.op = "DivergenceAnalyzer"
    /\ ev.sat_score = -55 /\ ev.news_score = 85
    /\ ev.sat_confidence = 90 /\ ev.hype = 88
PanicExample ==
    /\ ev.op = "DivergenceAnalyzer"
    /\ ev.sat_score = 62 /\ ev.news_score = -82
    /\ ev.sat_confidence = 88 /\ ev.hype = 72

\* C20: with physical score -0.55, narrative score +0.85, confidence 0.9 and
\* hype 88 DivergenceAnalyzer yields a divergence of at least 75 and a list
\* holding the hype-divergence alert; with physical +0.62, narrative -0.82,
\* confidence 0.88 and hype 72 it yields a divergence of at least 75 and the
\* panic-divergence alert.
C20_ScenarioExamples ==
    /\ HypeExample =>
        /\ FLeq[Whole(75), ev.analyzer._divergence]
        /\ AlertsTitled(ev.analyzer._alerts, {"Hype Divergence Detected"}) # << >>
    /\ PanicExample =>
        /\ FLeq[Whole(75), ev.analyzer._divergence]
        /\ AlertsTitled(ev.analyzer._alerts, {"Panic Divergence Detected"}) # << >>

\* the hype scenario evaluated: divergence 90.72, critical alert first
C20_Witness ==
    /\ HypeExample
    /\ ev.analyzer._divergence = FOfRatio(9072, Scale)
    /\ ev.analyzer._alerts[1].level = "critical"

\* the exact difference a - b of two doubles as the unevaluated sum hi + lo
\* of two doubles: hi is the rounded difference and lo its rounding error,
\* which is a double (Knuth's TwoSum on a and -b)
ExactDiff(a, b) ==
    LET hi == FSub[a, b]
        bv == FSub[hi, a]
        av == FSub[hi, bv]
    IN  [hi |-> hi, lo |-> FAdd[FSub[a, av], FSub[FNeg[b], bv]]]

\* the exact distance |a - b| of two scores given in hundredths, measured
\* between the doubles the function receives for them
ExactGap(a, b) ==
    LET d == ExactDiff(Centi(a), Centi(b))
    IN  IF d.hi.m # << >> /\ d.hi.neg
        THEN [hi |-> FAbs[d.hi], lo |-> FNeg[d.lo]]
        ELSE d

\* x < y for two exact distances: rounding is monotone, so the rounded parts
\* decide unless they are equal, and then the errors do
ExactLess(x, y) == FLess[x.hi, y.hi] \/ (x.hi = y.hi /\ FLess[x.lo, y.lo])

\* the market factor the claim prescribes for a reading, in tenths: the
\* distances are those the function measures on the scores it receives,
\* abs(sat_score - market_score) and abs(news_score - market_score)
PrescribedMarketFactor(sat_score, news_score, market_score) ==
    IF market_score = Nothing THEN 10
    ELSE IF FloatGap(sat_score, market_score[1]) = FloatGap(news_score, market_score[1])
    THEN 10
    ELSE IF FLess[FloatGap(sat_score, market_score[1]), FloatGap(news_score, market_score[1])]
    THEN 12
    ELSE 11

\* a gain is given only to a channel whose score is strictly nearer to the
\* market score in exact arithmetic on the doubles received
GainExactlyNearer(factor, sat_score, news_score, market_score) ==
    /\ factor = 12 => ExactLess(ExactGap(sat_score, market_score[1]),
                                ExactGap(news_score, market_score[1]))
    /\ factor = 11 => ExactLess(ExactGap(news_score, market_score[1]),
                                ExactGap(sat_score, market_score[1]))

\* C21: the market factor of main.compute_divergence is 1.0 without a market
\* score or with one equidistant from both channels, 1.2 when the market
\* score is strictly nearer to the satellite score, 1.1 when strictly nearer
\* to the news score, the distances being those the function measures on
\* the doubles it receives (a gain never goes to a channel that is not
\* strictly nearer in exact arithmetic on these doubles); a supplied market
\* score never lowers the divergence below the value computed without it.
C21_MarketFactorValues ==
    ev.op = "compute_divergence" =>
        /\ ev.d1.market_factor \in {10, 11, 12}
        /\ ev.d1.market_factor = PrescribedMarketFactor(ev.s1, ev.n1, ev.market_score)
        /\ ev.d2.market_factor = PrescribedMarketFactor(ev.s2, ev.n2, ev.market_score)
        /\ GainExactlyNearer(ev.d1.market_factor, ev.s1, ev.n1, ev.market_score)
        /\ GainExactlyNearer(ev.d2.market_factor, ev.s2, ev.n2, ev.market_score)
        /\ ev.d1.main >= compute_divergence(ev.s1, ev.n1, Nothing,
                                            ev.sat_conf, ev.news_conf, ev.hype)
        /\ ev.d2.main >= compute_divergence(ev.s2, ev.n2, Nothing,
                                            ev.sat_conf, ev.news_conf, ev.hype)

\* a market score of 0.70 between the channels: the double of 0.70 is nearer
\* to the double of 0.40 than to 1.00 by about 1.1e-16 (factor 1.2), and the
\* other way round (factor 1.1); without a gain the divergence would be
\* lower
C21_Witness ==
    /\ ev.op = "compute_divergence"
    /\ ev.market_score = Some(70)
    /\ ev.s1 = 40 /\ ev.n1 = 100 /\ ev.d1.market_factor = 12
    /\ ev.s2 = 100 /\ ev.n2 = 40 /\ ev.d2.market_factor = 11
    /\ ev.d1.main > compute_divergence(ev.s1, ev.n1, Nothing,
                                       ev.sat_conf, ev.news_conf, ev.hype)

\* a normalized score x (in (2 * Scale)-ths of a hundredth) is the diversity
\* discount of the sentiment: sentiment * (0.5 + 0.5 * diversity), hence of
\* the sentiment's sign and of no greater magnitude
DiversityDiscount(x, sentiment, diversity) ==
    /\ x = sentiment * (Scale + diversity)
    /\ (sentiment > 0) <=> (x > 0)
    /\ (sentiment < 0) <=> (x < 0)
    /\ Abs(x) <= Abs(sentiment) * 2 * Scale

\* C22: for sentiment in [-1,1] and diversity in [0,1] each narrative
\* normalizer (the simulator's, NewsSignal._compute_score,
\* SignalAnalyzer._normalize_news_score, main.normalize_news_score) returns
\* sentiment * (0.5 + 0.5 * diversity): the sentiment's sign, and a
\* magnitude no greater than the sentiment's.
C22_SameDiversityDiscount ==
    ev.op = "normalize_news_score" =>
        /\ DiversityDiscount(ev.simulator, ev.sentiment, ev.diversity)
        /\ DiversityDiscount(ev.news_signal, ev.sentiment, ev.diversity)
        /\ DiversityDiscount(ev.signal_analyzer, ev.sentiment, ev.diversity)
        /\ DiversityDiscount(ev.main, ev.sentiment, ev.diversity)

\* the part of C22 that concerns the three normalizers other than main's
C22_SameDiversityDiscountOutsideMain ==
    ev.op = "normalize_news_score" =>
        /\ DiversityDiscount(ev.simulator, ev.sentiment, ev.diversity)
        /\ DiversityDiscount(ev.news_signal, ev.sentiment, ev.diversity)
        /\ DiversityDiscount(ev.signal_analyzer, ev.sentiment, ev.diversity)

\* C23: for two RegionSimulator objects, in any interleaving of the steps
\* of their generate_day / generate_series calls each object returns the
\* records it returns when its calls are run alone, and is left in the same
\* state; no profile of the dictionary is changed, and each object's profile
\* stays the registered one.
C23_InstancesIndependent ==
    /\ registry = REGION_CONFIGS
    /\ \A i \in Sims :
          sim[i] # Unborn =>
              /\ sim[i].config = get_config(sim[i].region_id)
              /\ pc[i].at = "idle" =>
                     /\ sim[i] = alone[i].self
                     /\ out[i] = alone[i].out

\* a generate_day on object 1 and a generate_series on object 2, built for
\* different regions, were in flight at the same time and both returned
C23_Witness ==
    /\ pc[1].at = "idle" /\ pc[2].at = "idle"
    /\ sim[1] # Unborn /\ sim[2] # Unborn
    /\ sim[1].region_id # sim[2].region_id
    /\ Len(log[1]) = 1 /\ log[1][1].overlapped /\ log[1][1].method = "generate_day"
    /\ Len(log[2]) = 1 /\ log[2][1].overlapped /\ log[2][1].method = "generate_series"
    /\ out[1].op = "generate_day" /\ out[1].error = None
    /\ out[2].op = "generate_series" /\ out[2].error = None /\ Len(out[2].value) = 3

\* the raw metadata of a day record are in their declared ranges
RawInRange(day) ==
    /\ 10 <= day.news_raw.headline_volume /\ day.news_raw.headline_volume <= 300
    /\ FLeq[Whole(0), day.news_raw.hype_intensity]
    /\ FLeq[day.news_raw.hype_intensity, Whole(100)]
    /\ FLeq[Centi(20), day.news_raw.source_diversity]
    /\ FLeq[day.news_raw.source_diversity, Centi(95)]
    /\ FLeq[Centi(30), day.news_raw.confidence] /\ FLeq[day.news_raw.confidence, Centi(95)]
    /\ FLeq[Centi(30), day.satellite_raw.confidence]
    /\ FLeq[day.satellite_raw.confidence, Centi(95)]

\* the day records of the last call on object i
ReturnedDays(i) ==
    IF out[i].op = "none" \/ out[i].error # None THEN << >>
    ELSE IF out[i].op \in {"generate_day", "generate_day_headlines_raise"}
    THEN << out[i].value >>
    ELSE out[i].value

\* C24: in every generated day, for every profile with a positive headline
\* volume baseline, headline_volume is in [10,300], hype_intensity in
\* [0,100], source_diversity in [0.2,0.95] and the confidence of each
\* channel in [0.3,0.95].
C24_RawMetadataInRange ==
    \A i \in Sims :
        (sim[i] # Unborn /\ sim[i].config.news_volume_baseline > 0) =>
            \A k \in 1..Len(ReturnedDays(i)) : RawInRange(ReturnedDays(i)[k])

\* a series of the extreme profile with a day at the volume ceiling and full
\* hype and a day whose satellite confidence sits on a bound
C24_Witness ==
    /\ out[1].op = "generate_series"
    /\ out[1].error = None
    /\ sim[1].region_id = "stress"
    /\ \E k \in 1..Len(out[1].value) :
          /\ out[1].value[k].news_raw.headline_volume = 300
          /\ out[1].value[k].news_raw.hype_intensity = Whole(100)
    /\ \E k \in 1..Len(out[1].value) :
          out[1].value[k].satellite_raw.confidence \in {Centi(30), Centi(95)}

\* C25: for fixed scores RegionSimulator._compute_divergence is
\* non-decreasing in sat_confidence, in news_confidence and in
\* hype_intensity, and the hype amplifier adds at most half of the un-hyped
\* value (a factor of at most 1.5, reached at hype 100 when uncapped).
C25_WeightedAndAmplified ==
    ev.op = "_compute_divergence" =>
        /\ (/\ ev.w1.sat_confidence <= ev.w2.sat_confidence
            /\ ev.w1.news_confidence <= ev.w2.news_confidence
            /\ ev.w1.hype_intensity <= ev.w2.hype_intensity) => ev.d1 <= ev.d2
        /\ ev.unhyped1 <= ev.d1
        /\ 2 * (ev.d1 - ev.unhyped1) <= ev.unhyped1
        /\ (ev.w1.hype_intensity = 100 /\ ev.d1 < 100 * DivUnit) =>
               2 * (ev.d1 - ev.unhyped1) = ev.unhyped1

\* two weightings that differ in the satellite confidence alone, the
\* divergence rising with it, the first being amplified by exactly 1.5
C25_Witness ==
    /\ ev.op = "_compute_divergence"
    /\ ev.w1.hype_intensity = 100 /\ ev.w2.hype_intensity = 100
    /\ ev.w1.news_confidence = ev.w2.news_confidence
    /\ ev.w1.sat_confidence < ev.w2.sat_confidence
    /\ 0 < ev.d1 /\ ev.d1 < ev.d2 /\ ev.d2 < 100 * DivUnit
    /\ 2 * (ev.d1 - ev.unhyped1) = ev.unhyped1

\* the days of a regime, and its physical effect on one of them (the state
\* scalar is read by the MEAN_REVERSION branch alone)
RegimeDays(regime) == regime.start_day .. (regime.start_day + regime.duration - 1)
ShockEffect(regime, day) ==
    regime_satellite_effect([sat_state |-> FZero], regime, progress(regime, day))

\* C26: on every day of a SUPPLY_SHOCK regime the physical effect is <= 0,
\* it is most negative on the regime's first day, its magnitude never
\* increases from one regime day to the next, and on the last day it is
\* not zero.
C26_SupplyShockFrontLoaded ==
    ev.op = "generate_regimes" =>
        \A k \in 1..Len(ev.regimes) :
            ev.regimes[k].type = "SUPPLY_SHOCK" =>
                /\ \A day \in RegimeDays(ev.regimes[k]) :
                      /\ FLeq[ShockEffect(ev.regimes[k], day), FZero]
                      /\ FLeq[ShockEffect(ev.regimes[k], ev.regimes[k].start_day),
                              ShockEffect(ev.regimes[k], day)]
                      /\ (day + 1 \in RegimeDays(ev.regimes[k])) =>
                             FLeq[FAbs[ShockEffect(ev.regimes[k], day + 1)],
                                  FAbs[ShockEffect(ev.regimes[k], day)]]
                /\ ShockEffect(ev.regimes[k],
                               ev.regimes[k].start_day + ev.regimes[k].duration - 1) # FZero

\* C26 without the day-to-day clause
C26_SupplyShockNegativeStrongestFirst ==
    ev.op = "generate_regimes" =>
        \A k \in 1..Len(ev.regimes) :
            ev.regimes[k].type = "SUPPLY_SHOCK" =>
                /\ \A day \in RegimeDays(ev.regimes[k]) :
                      /\ FLeq[ShockEffect(ev.regimes[k], day), FZero]
                      /\ FLeq[ShockEffect(ev.regimes[k], ev.regimes[k].start_day),
                              ShockEffect(ev.regimes[k], day)]
                /\ ShockEffect(ev.regimes[k],
                               ev.regimes[k].start_day + ev.regimes[k].duration - 1) # FZero

\* state + effect has the sign of state and no greater magnitude (doubles)
PullsTowardZero(state, effect) ==
    /\ FLess[FZero, state] <=> FLess[FZero, FAdd[state, effect]]
    /\ FLess[state, FZero] <=> FLess[FAdd[state, effect], FZero]
    /\ FLeq[FAbs[FAdd[state, effect]], FAbs[state]]

\* C27: on every day of a MEAN_REVERSION regime the physical state plus its
\* regime effect has the state's sign and no greater magnitude; the pull is
\* zero at progress 0 and grows with progress; likewise for the narrative
\* state and its sentiment modifier.
C27_MeanReversionPullsTowardZero ==
    ev.op = "mean_reversion" =>
        /\ ev.days[1].progress = FZero
        /\ ev.days[1].sat_effect = FZero /\ ev.days[1].sentiment_mod = FZero
        /\ \A k \in 1..Len(ev.days) :
              /\ PullsTowardZero(Centi(ev.state), ev.days[k].sat_effect)
              /\ PullsTowardZero(Centi(ev.state), ev.days[k].sentiment_mod)
              /\ k < Len(ev.days) =>
                    /\ FLess[ev.days[k].progress, ev.days[k + 1].progress]
                    /\ FLeq[FAbs[ev.days[k].sat_effect], FAbs[ev.days[k + 1].sat_effect]]
                    /\ FLeq[FAbs[ev.days[k].sentiment_mod],
                            FAbs[ev.days[k + 1].sentiment_mod]]

\* a full-intensity 10-day regime on a state of 3.0: on the last day the
\* progress is 0.9, the physical pull -0.8099999999999999 and the narrative
\* pull -1.0800000000000003, both short of the state
C27_Witness ==
    /\ ev.op = "mean_reversion"
    /\ ev.state = 300 /\ ev.duration = 10 /\ ev.intensity = 100
    /\ ev.days[10].progress = Centi(90)
    /\ FLess[Centi(-81), ev.days[10].sat_effect] /\ FLess[ev.days[10].sat_effect, Centi(-80)]
    /\ FLess[Centi(-109), ev.days[10].sentiment_mod]
    /\ FLess[ev.days[10].sentiment_mod, Centi(-107)]

\* the headlines of a day are five, of pairwise distinct titles, in order of
\* non-increasing absolute sentiment
FiveDistinctByImpact(headlines) ==
    /\ Len(headlines) = 5
    /\ \A a, b \in 1..Len(headlines) : a # b => headlines[a].title # headlines[b].title
    /\ \A a \in 1..(Len(headlines) - 1) :
          FLeq[FAbs[headlines[a + 1].sentiment], FAbs[headlines[a].sentiment]]

\* the same without the distinctness of the titles
FiveByImpact(headlines) ==
    /\ Len(headlines) = 5
    /\ \A a \in 1..(Len(headlines) - 1) :
          FLeq[FAbs[headlines[a + 1].sentiment], FAbs[headlines[a].sentiment]]

\* C28: HeadlineGenerator.generate(count=5), as called for every generated
\* day, returns exactly 5 headlines of pairwise distinct templates (titles),
\* ordered by non-increasing absolute sentiment.
C28_FiveDistinctHeadlines ==
    \A i \in Sims :
        out[i].op \in {"generate_day", "generate_series"} =>
            \A k \in 1..Len(ReturnedDays(i)) :
                FiveDistinctByImpact(ReturnedDays(i)[k].news_raw.top_headlines)

\* C28 without the distinctness of the titles
C28_FiveHeadlinesByImpact ==
    \A i \in Sims :
        out[i].op \in {"generate_day", "generate_series"} =>
            \A k \in 1..Len(ReturnedDays(i)) :
                FiveByImpact(ReturnedDays(i)[k].news_raw.top_headlines)

\* C29: every schedule holds one or two regimes; the first pass of the loop
\* places its regime on the first start drawn, so only the second pass can
\* drop one; the schedule is in order of strictly increasing start_day.
C29_OneOrTwoRegimes ==
    ev.op = "generate_regimes" =>
        /\ Len(ev.regimes) \in {1, 2}
        /\ ev.n_regimes \in {1, 2}
        /\ Len(ev.passes) >= 1
        /\ ev.passes[1].placed /\ ev.passes[1].tried = 1
        /\ \A i \in 1..Len(ev.passes) : ~ev.passes[i].placed => i = 2
        /\ \A k \in 1..(Len(ev.regimes) - 1) :
              ev.regimes[k].start_day < ev.regimes[k + 1].start_day

\* a schedule of two regimes, the second placed after overlapping starts
C29_Witness ==
    /\ ev.op = "generate_regimes"
    /\ Len(ev.regimes) = 2
    /\ ev.passes[2].placed /\ ev.passes[2].tried > 1
    /\ ev.regimes[1].start_day < ev.regimes[2].start_day

\* C30: the market_score of the /signals response is None iff no market
\* signal was available; when one was fetched, its signal_strength is what
\* compute_divergence and generate_alerts received and the response carries
\* it rounded, also when it is 0.
C30_MarketScoreReported ==
    (ev.op = "get_signals" /\ ev.response.error = None) =>
        /\ (ev.response.market_score = Nothing) <=> (ev.market_signal = Nothing)
        /\ ev.market_signal # Nothing =>
              /\ ev.response.used = Some(ev.market_signal[1].signal_strength)
              /\ ev.response.market_score = Some(round3(ev.market_signal[1].signal_strength))

\* C30 for the signals whose strength is not 0
C30_NonZeroMarketScoreReported ==
    (ev.op = "get_signals" /\ ev.response.error = None /\ Truthy(ev.response.used)) =>
        /\ ev.market_signal # Nothing
        /\ ev.response.used = Some(ev.market_signal[1].signal_strength)
        /\ ev.response.market_score = Some(round3(ev.market_signal[1].signal_strength))
====
